---- MODULE Spec2Model ----
(***************************************************************************)
(* The quote-resolution and caching layer of the portfolio tracker         *)
(* (src/portfolio-website/src/api/twelve.js): symbol normalisation, the    *)
(* two-tier cache, the three provider adapters, the resolvers, the         *)
(* one-time key validation and the shared apiState.                        *)
(*                                                                         *)
(* Strings that the code takes apart (symbols, cache keys) are sequences   *)
(* of one-character strings.  Prices are integers (hundredths).  Time is   *)
(* Date.now() in milliseconds.                                             *)
(***************************************************************************)
EXTENDS Integers, Sequences, FiniteSets, TLC

\* ------------------------------------------------------------------------
\* Bounds of the model
\* ------------------------------------------------------------------------
\* number of fetchQuote/fetchSeries calls that can be in flight at once
MaxReqs == 2
\* number of fetchQuote/fetchSeries calls issued in one behaviour
MaxCalls == 2
\* number of times the clock advances in one behaviour
MaxTicks == 2
\* the output count the callers of fetchSeries ask for
SmallOutput == 2
\* Date.now() when the page loads, and the short step of the clock
StartTime == 1000
ShortStep == 250

\* ------------------------------------------------------------------------
\* Program constants
\* ------------------------------------------------------------------------
QUOTE_TTL_MS == 24 * 60 * 60 * 1000
SERIES_TTL_MS == 24 * 60 * 60 * 1000
\* expiry given to an in-memory entry rehydrated from localStorage
REHYDRATE_MS == 500

\* null / undefined of JavaScript, as a record so that it compares with data
Null == [null |-> TRUE]

\* ------------------------------------------------------------------------
\* Strings
\* ------------------------------------------------------------------------
Lower == <<"a", "c", "l", "o", "p", "t">>
Upper == <<"A", "C", "L", "O", "P", "T">>

\* String.prototype.toUpperCase on one character
UpperChar(c) ==
  IF \E i \in 1..Len(Lower) : Lower[i] = c
  THEN Upper[CHOOSE i \in 1..Len(Lower) : Lower[i] = c]
  ELSE c

\* the upper case of one character as a string: "ß" becomes "SS"
UpperOf(c) == IF c = "ß" THEN <<"S", "S">> ELSE <<UpperChar(c)>>

\* toUpperCase left out: the string as it is
toUpperCaseOmitted(s) == s

RECURSIVE toUpperCase(_)
toUpperCase(s) ==
  IF s = <<>> THEN <<>> ELSE UpperOf(Head(s)) \o toUpperCase(Tail(s))

\* white space as String.prototype.trim sees it (space and tab here)
IsSpace(c) == c \in {" ", "\t"}

\* trimStart removing one leading white space character at most
trimStartOnce(s) ==
  IF s # <<>> /\ IsSpace(Head(s)) THEN Tail(s) ELSE s

RECURSIVE trimStart(_)
trimStart(s) ==
  IF s # <<>> /\ IsSpace(Head(s)) THEN trimStart(Tail(s)) ELSE s

RECURSIVE trimEnd(_)
trimEnd(s) ==
  IF s # <<>> /\ IsSpace(s[Len(s)]) THEN trimEnd(SubSeq(s, 1, Len(s) - 1)) ELSE s

trim(s) == trimEnd(trimStart(s))

\* (sym || "").toUpperCase().trim(); the input is [t |-> "null"], [t |->
\* "undefined"] or [t |-> "str", s |-> characters]
Normalize(sym) ==
  LET str == IF sym.t = "str" THEN sym.s ELSE <<>>
  IN trim(toUpperCase(str))

endsWith(s, suffix) ==
  /\ Len(s) >= Len(suffix)
  /\ SubSeq(s, Len(s) - Len(suffix) + 1, Len(s)) = suffix

\* index of the first occurrence of pat in s, 0 when there is none
IndexOf(s, pat) ==
  LET at == {i \in 1..(Len(s) - Len(pat) + 1) : SubSeq(s, i, i + Len(pat) - 1) = pat}
  IN IF at = {} THEN 0 ELSE CHOOSE i \in at : \A j \in at : i <= j

\* String.prototype.replace with a string pattern: the first occurrence only
replace(s, pat, by) ==
  LET i == IndexOf(s, pat)
  IN IF i = 0 THEN s
     ELSE SubSeq(s, 1, i - 1) \o by \o SubSeq(s, i + Len(pat), Len(s))

DOT_TO == <<".", "T", "O">>
DOT_XTSE == <<".", "X", "T", "S", "E">>
AAPL == <<"A", "A", "P", "L">>
MSFT == <<"M", "S", "F", "T">>
AC_TO == <<"A", "C", ".", "T", "O">>

Digits == <<"0", "1", "2", "3", "4", "5", "6", "7", "8", "9">>

\* String(n) of a natural number
RECURSIVE NatToString(_)
NatToString(n) ==
  IF n < 10 THEN <<Digits[n + 1]>>
  ELSE NatToString(n \div 10) \o <<Digits[(n % 10) + 1]>>

quoteKey(SYM) == <<"q", "u", "o", "t", "e", ":">> \o SYM

ONE_DAY == <<"1", "d", "a", "y">>

\* the series key without the output count
seriesKeyWithoutOutput(SYM, interval, output) ==
  <<"s", "e", "r", "i", "e", "s", ":">> \o SYM \o <<"|">> \o interval

seriesKey(SYM, interval, output) ==
  <<"s", "e", "r", "i", "e", "s", ":">> \o SYM \o <<"|">> \o interval
    \o <<"|">> \o NatToString(output)

\* ------------------------------------------------------------------------
\* Cache store: Map (in memory) over localStorage
\* ------------------------------------------------------------------------
EmptyMap == [k \in {} |-> Null]

\* a map that holds one entry at a time: setting a key drops the others
MapSetAlone(map, key, entry) == [k \in {key} |-> entry]

MapSet(map, key, entry) ==
  [k \in (DOMAIN map) \cup {key} |-> IF k = key THEN entry ELSE map[k]]

\* JSON.stringify and JSON.parse of a cache entry.  The text of an object is
\* the sequence of its members <<name, text of the value>> in insertion
\* order, the text of an array the sequence of the texts of its elements, the
\* text of a number, a string or null a tagged leaf.
JsonNumber(n) == [json |-> "number", v |-> n]
JsonString(str) == [json |-> "string", v |-> str]
JsonNull == [json |-> "null"]

\* the text of a cached series {values: [{datetime, close}]} (two strings a
\* point) or of a cached quote {price, previous_close, change_percent}
stringifyData(data) ==
  IF "values" \in DOMAIN data
  THEN <<<<"values",
          [i \in 1..Len(data.values) |->
             <<<<"datetime", JsonString(data.values[i].datetime)>>,
               <<"close", JsonString(data.values[i].close)>>>>]>>>>
  ELSE <<<<"price", JsonNumber(data.price)>>,
         <<"previous_close", JsonNumber(data.previous_close)>>,
         <<"change_percent",
           IF data.change_percent = Null THEN JsonNull
           ELSE JsonNumber(data.change_percent)>>>>

\* JSON.stringify({ data, exp })
JSONstringify(entry) ==
  <<<<"data", stringifyData(entry.data)>>, <<"exp", JsonNumber(entry.exp)>>>>

HasMember(text, name) == \E i \in 1..Len(text) : text[i][1] = name

Member(text, name) ==
  text[CHOOSE i \in 1..Len(text) : text[i][1] = name][2]

parseData(text) ==
  IF HasMember(text, "values")
  THEN LET vals == Member(text, "values")
       IN [values |-> [i \in 1..Len(vals) |->
                         [datetime |-> Member(vals[i], "datetime").v,
                          close |-> Member(vals[i], "close").v]]]
  ELSE [price |-> Member(text, "price").v,
        previous_close |-> Member(text, "previous_close").v,
        change_percent |-> IF Member(text, "change_percent").json = "null" THEN Null
                           ELSE Member(text, "change_percent").v]

\* JSON.parse(raw) of a stored entry
JSONparse(raw) ==
  [data |-> parseData(Member(raw, "data")),
   exp |-> IF HasMember(raw, "exp") THEN Member(raw, "exp").v ELSE 0]

\* an exception that no try/catch of the callee caught
Escaped == [escaped |-> TRUE]

\* readLS without its try/catch: a failure of the storage escapes the read
readLSUncaught(store, key, t, storageOk) ==
  IF ~storageOk THEN Escaped
  ELSE IF key \notin DOMAIN store THEN Null
  ELSE LET parsed == JSONparse(store[key])
       IN IF parsed.exp = 0 \/ parsed.exp < t THEN Null ELSE parsed.data

\* readLS returning the parsed entry { data, exp }, not its data
readLSWholeEntry(store, key, t, storageOk) ==
  IF ~storageOk THEN Null
  ELSE IF key \notin DOMAIN store THEN Null
  ELSE LET parsed == JSONparse(store[key])
       IN IF parsed.exp = 0 \/ parsed.exp < t THEN Null ELSE parsed

\* readLS(key): storageOk = FALSE is getItem or JSON.parse throwing, which
\* the catch turns into null
readLS(store, key, t, storageOk) ==
  IF ~storageOk THEN Null
  ELSE IF key \notin DOMAIN store THEN Null
  ELSE LET parsed == JSONparse(store[key])
       IN IF parsed.exp = 0 \/ parsed.exp < t THEN Null ELSE parsed.data

\* writeLS(key, data, ttlMs): storageOk = FALSE is setItem throwing (quota)
writeLS(store, key, data, ttlMs, t, storageOk) ==
  IF ~storageOk THEN store
  ELSE MapSet(store, key, JSONstringify([data |-> data, exp |-> t + ttlMs]))

\* readCache without its in-memory tier: every read goes to localStorage
readCacheDurableOnly(map, store, key, t, storageOk) ==
  LET ls == readLS(store, key, t, storageOk)
  IN IF ls = Escaped THEN [val |-> Escaped, map |-> map]
     ELSE IF ls # Null
     THEN [val |-> ls,
           map |-> MapSet(map, key, [data |-> ls, exp |-> t + REHYDRATE_MS])]
     ELSE [val |-> Null, map |-> map]

\* readCache(map, key): the value read (Null on a miss) and the map after it
readCache(map, store, key, t, storageOk) ==
  IF key \in DOMAIN map /\ map[key].exp > t
  THEN [val |-> map[key].data, map |-> map]
  ELSE LET ls == readLS(store, key, t, storageOk)
       IN IF ls = Escaped THEN [val |-> Escaped, map |-> map]
          ELSE IF ls # Null
          THEN [val |-> ls,
                map |-> MapSet(map, key, [data |-> ls, exp |-> t + REHYDRATE_MS])]
          ELSE [val |-> Null, map |-> map]

\* writeCache given up as a whole when localStorage.setItem throws
writeCacheAllOrNothing(map, store, key, data, ttlMs, t, storageOk) ==
  IF ~storageOk THEN [map |-> map, store |-> store]
  ELSE [map |-> MapSet(map, key, [data |-> data, exp |-> t + ttlMs]),
        store |-> writeLS(store, key, data, ttlMs, t, storageOk)]

\* writeCache keeping an unexpired entry: the first writer wins
writeCacheFirstWins(map, store, key, data, ttlMs, t, storageOk) ==
  IF key \in DOMAIN map /\ map[key].exp > t THEN [map |-> map, store |-> store]
  ELSE [map |-> MapSet(map, key, [data |-> data, exp |-> t + ttlMs]),
        store |-> writeLS(store, key, data, ttlMs, t, storageOk)]

\* writeCache(map, key, data, ttlMs): the map and the storage after it
writeCache(map, store, key, data, ttlMs, t, storageOk) ==
  [map |-> MapSet(map, key, [data |-> data, exp |-> t + ttlMs]),
   store |-> writeLS(store, key, data, ttlMs, t, storageOk)]

\* ------------------------------------------------------------------------
\* JavaScript values of the provider payloads
\* ------------------------------------------------------------------------
\* a JSON number n, or the decimal string of n
Num(n) == [t |-> "num", n |-> n]
\* a string that is no number ("N/A", "undefined")
Str == [t |-> "str", n |-> 0]
\* a field that is absent
Undefined == [t |-> "undef", n |-> 0]
NaN == [t |-> "nan", n |-> 0]

\* Number(v)
Number(v) == IF v.t = "num" THEN v ELSE NaN

\* Number.isFinite(x) ? x : 0, as an integer
FiniteOrZero(x) == IF x.t = "num" THEN x.n ELSE 0

\* Number(v) || 0, as an integer
NumberOrZero(v) == FiniteOrZero(Number(v))

\* a percentage kept as the exact fraction num/den
Pct(num, den) == [num |-> num, den |-> den]

\* what an operation that can throw produces
Thrown(msg) == [thrown |-> TRUE, msg |-> msg, val |-> Null]
Returned(v) == [thrown |-> FALSE, msg |-> "", val |-> v]

\* String(msg).toLowerCase().includes("invalid api key")
MentionsInvalidKey(msg) == msg \in {"HTTP 401: Invalid API key", "Invalid API key"}

\* getJSON(url) applied to the response the provider sends: resp.ok is
\* res.ok, resp.msg is the message the code builds from the status and the
\* error fields of the body (empty when the body has none), resp.body the JSON
getJSON(resp) ==
  IF ~resp.ok THEN Thrown(resp.msg)
  ELSE IF resp.msg # "" THEN Thrown(resp.msg)
  ELSE Returned(resp.body)

\* ------------------------------------------------------------------------
\* Mock data (src/mock.js) and its loader
\* ------------------------------------------------------------------------
mockQuote ==
  [s \in {AAPL, MSFT, AC_TO} |->
     CASE s = AAPL -> [price |-> 23012, prevClose |-> 22784]
       [] s = MSFT -> [price |-> 42055, prevClose |-> 41810]
       [] s = AC_TO -> [price |-> 2450, prevClose |-> 2430]]

MockSeriesLength == 30

mockSeries ==
  [s \in {AAPL, MSFT, AC_TO} |->
     [i \in 1..MockSeriesLength |->
        [datetime |-> i,
         close |-> CASE s = AAPL -> 22000 + (i - 1) * 40
                     [] s = MSFT -> 41000 + (i - 1) * 35
                     [] s = AC_TO -> 2350 + (i - 1) * 5]]]

\* Array.prototype.slice(-n): the last n elements for n > 0; slice(-0) is
\* slice(0), the whole array; for n < 0 it is slice(|n|)
SliceLast(arr, n) ==
  IF n = 0 THEN arr
  ELSE IF n < 0 THEN (IF -n >= Len(arr) THEN <<>> ELSE SubSeq(arr, 1 - n, Len(arr)))
  ELSE IF Len(arr) <= n THEN arr
  ELSE SubSeq(arr, Len(arr) - n + 1, Len(arr))

\* loadMock().quote reading s.previous_close, a field the mock table lacks
loadMockQuoteWrongField(sym) ==
  IF sym \in DOMAIN mockQuote
  THEN [price |-> mockQuote[sym].price, previous_close |-> 0]
  ELSE [price |-> 0, previous_close |-> 0]

\* loadMock().quote(sym)
loadMockQuote(sym) ==
  IF sym \in DOMAIN mockQuote
  THEN [price |-> mockQuote[sym].price, previous_close |-> mockQuote[sym].prevClose]
  ELSE [price |-> 0, previous_close |-> 0]

\* loadMock().series(sym, output)
loadMockSeries(sym, output) ==
  LET arr == SliceLast(IF sym \in DOMAIN mockSeries THEN mockSeries[sym] ELSE <<>>, output)
  IN [values |-> [i \in 1..Len(arr) |->
                    [datetime |-> arr[i].datetime, close |-> Num(arr[i].close)]]]

\* ------------------------------------------------------------------------
\* Provider adapters.  xxRequest is the HTTP request the adapter sends,
\* xxFetch... what it makes of the response.
\* ------------------------------------------------------------------------
Request(prov, sym, by) == [prov |-> prov, sym |-> sym, by |-> by]

msRequest(sym, by) == Request("MS", replace(sym, DOT_TO, DOT_XTSE), by)
fhRequest(sym, by) == Request("FH", sym, by)
avRequest(sym, by) == Request("AV", sym, by)

\* the canonical quote an adapter returns
AdapterQuote(price, pc, changePercent) ==
  [price |-> FiniteOrZero(price),
   previous_close |-> FiniteOrZero(pc),
   change_percent |-> changePercent]

msFetchQuote(use, sym, resp) ==
  IF ~use THEN Thrown("Marketstack key missing")
  ELSE LET r == getJSON(resp)
       IN IF r.thrown THEN r
          ELSE LET j == r.val
               IN IF ~j.hasData \/ Len(j.data) = 0
                  THEN Thrown("Symbol not found on Marketstack - empty data array")
                  ELSE LET today == j.data[1]
                           price == Number(today.close)
                           open == Number(today.open)
                           pc == IF Len(j.data) >= 2 THEN Number(j.data[2].close) ELSE open
                           changePercent ==
                             IF pc.t = "num" /\ pc.n > 0 /\ price.t = "num"
                             THEN Pct((price.n - pc.n) * 100, pc.n)
                             ELSE Null
                       IN Returned(AdapterQuote(price, pc, changePercent))

fhFetchQuote(use, sym, resp) ==
  IF ~use THEN Thrown("Finnhub key missing")
  ELSE LET r == getJSON(resp)
       IN IF r.thrown THEN r
          ELSE LET j == r.val
                   dp == Number(j.dp)
               IN Returned(AdapterQuote(Number(j.c), Number(j.pc),
                                        IF dp.t = "num" THEN Pct(dp.n, 1) ELSE Null))

avFetchQuote(use, sym, resp) ==
  IF ~use THEN Thrown("Alpha Vantage key missing")
  ELSE LET r == getJSON(resp)
       IN IF r.thrown THEN r
          ELSE LET j == r.val
               IN IF j.Information
                  THEN Thrown("Alpha Vantage rate limit exceeded (25 calls/day)")
                  ELSE IF ~j.hasQuote
                  THEN Thrown("Symbol not found on Alpha Vantage")
                  ELSE LET q == j.GlobalQuote
                           cp == Number(q.changePercent)
                       IN Returned(AdapterQuote(Number(q.price), Number(q.previousClose),
                                                IF cp.t = "num" THEN Pct(cp.n, 1) ELSE Null))

\* Array.prototype.reverse
Reverse(arr) == [i \in 1..Len(arr) |-> arr[Len(arr) + 1 - i]]

\* a calendar date "YYYY-MM-DD" is the number of its day; the empty string is 0.
\* String(v.date).split('T')[0] of the date-time [day, time]
DatePart(date) == date.day

msFetchSeries(use, sym, output, resp) ==
  IF ~use THEN Thrown("Marketstack key missing")
  ELSE LET r == getJSON(resp)
       IN IF r.thrown THEN r
          ELSE LET j == r.val
               IN IF ~j.hasData \/ Len(j.data) = 0
                  THEN Thrown("No historical data from Marketstack")
                  ELSE LET rev == Reverse(j.data)
                       IN Returned([values |-> [i \in 1..Len(rev) |->
                                      [datetime |-> DatePart(rev[i].date),
                                       close |-> rev[i].close]]])

SECONDS_PER_DAY == 86400

\* new Date(ts * 1000).toISOString().slice(0, 10)
IsoDateOf(ts) == ts \div SECONDS_PER_DAY

fhFetchSeries(use, sym, output, resp) ==
  IF ~use THEN Thrown("Finnhub key missing")
  ELSE LET r == getJSON(resp)
       IN IF r.thrown THEN r
          ELSE LET j == r.val
               IN IF j.s # "ok" \/ ~j.hasArrays THEN Returned([values |-> <<>>])
                  ELSE LET vals == [i \in 1..Len(j.t) |->
                                      [datetime |-> IsoDateOf(j.t[i]),
                                       close |-> IF i <= Len(j.c) THEN j.c[i] ELSE Str]]
                       IN Returned([values |-> SliceLast(vals, output)])

\* the elements of a set of integers, ascending: Object.keys(series).sort()
RECURSIVE SortedKeys(_)
SortedKeys(S) ==
  IF S = {} THEN <<>>
  ELSE LET m == CHOOSE x \in S : \A y \in S : x <= y
       IN <<m>> \o SortedKeys(S \ {m})

avFetchSeries(use, sym, output, resp) ==
  IF ~use THEN Thrown("Alpha Vantage key missing")
  ELSE LET r == getJSON(resp)
       IN IF r.thrown THEN r
          ELSE LET j == r.val
               IN IF j.Information
                  THEN Thrown("Alpha Vantage rate limit exceeded (25 calls/day)")
                  ELSE IF DOMAIN j.series = {}
                  THEN Thrown("No series data")
                  ELSE LET last == SliceLast(SortedKeys(DOMAIN j.series), output)
                       IN Returned([values |-> [i \in 1..Len(last) |->
                                      [datetime |-> last[i],
                                       close |-> j.series[last[i]]]]])

\* ------------------------------------------------------------------------
\* What the providers can answer
\* ------------------------------------------------------------------------
ErrorResponses ==
  {[ok |-> FALSE, msg |-> "HTTP 401: Invalid API key", body |-> Null],
   [ok |-> TRUE, msg |-> "API rate limit reached", body |-> Null]}

Ok(body) == [ok |-> TRUE, msg |-> "", body |-> body]

MsRow(day, close, open) ==
  [date |-> [day |-> day, time |-> TRUE], close |-> close, open |-> open]

MsBodies ==
  {[hasData |-> TRUE,
    data |-> <<MsRow(3, Num(2460), Num(2445)), MsRow(2, Num(2440), Num(2420))>>],
   [hasData |-> TRUE, data |-> <<MsRow(3, Str, Str)>>],
   [hasData |-> FALSE, data |-> <<>>]}

FhQuoteBodies ==
  {[c |-> Num(15000), pc |-> Num(14900), dp |-> Num(67)],
   [c |-> Num(0), pc |-> Num(0), dp |-> Undefined]}

FhSeriesBodies ==
  {[s |-> "ok", hasArrays |-> TRUE,
    t |-> <<2 * SECONDS_PER_DAY, 3 * SECONDS_PER_DAY + 3600, 4 * SECONDS_PER_DAY>>,
    c |-> <<Num(14900), Num(14950), Num(15000)>>],
   [s |-> "no_data", hasArrays |-> FALSE, t |-> <<>>, c |-> <<>>]}

AvQuoteBodies ==
  {[Information |-> FALSE, hasQuote |-> TRUE,
    GlobalQuote |-> [price |-> Num(15100), previousClose |-> Num(14950),
                     changePercent |-> Num(100)]],
   [Information |-> FALSE, hasQuote |-> FALSE,
    GlobalQuote |-> [price |-> Undefined, previousClose |-> Undefined,
                     changePercent |-> Undefined]],
   [Information |-> TRUE, hasQuote |-> FALSE,
    GlobalQuote |-> [price |-> Undefined, previousClose |-> Undefined,
                     changePercent |-> Undefined]]}

AvSeriesBodies ==
  {[Information |-> FALSE,
    series |-> [d \in {2, 3, 4} |-> Num(14700 + d * 100)]],
   [Information |-> FALSE, series |-> [d \in {} |-> Str]]}

Responses(prov, kind) ==
  ErrorResponses \cup
    {Ok(b) : b \in CASE prov = "MS" -> MsBodies
                     [] prov = "FH" /\ kind = "quote" -> FhQuoteBodies
                     [] prov = "FH" /\ kind = "series" -> FhSeriesBodies
                     [] prov = "AV" /\ kind = "quote" -> AvQuoteBodies
                     [] prov = "AV" /\ kind = "series" -> AvSeriesBodies}

\* the spellings in which a caller can pass one instrument
SymbolSets ==
  {{[t |-> "null", s |-> <<>>], [t |-> "str", s |-> <<" ", " ">>]},
   {[t |-> "str", s |-> <<" ", "a", "a", "p", "l">>], [t |-> "str", s |-> AAPL]},
   {[t |-> "str", s |-> <<"a", "c", ".", "t", "o", " ">>], [t |-> "str", s |-> AC_TO]}}

\* what one session asks for: the quote or the series of one instrument
Sessions ==
  {[kind |-> k, symbols |-> S, output |-> IF k = "series" THEN SmallOutput ELSE 0] :
     k \in {"quote", "series"}, S \in SymbolSets}

\* ------------------------------------------------------------------------
\* State
\* ------------------------------------------------------------------------
VARIABLES
  USE_MS, USE_FH, USE_AV,  \* which provider keys the build has
  mem,                     \* mem.quotes and mem.series: key -> [data, exp]
  localStorage,            \* key -> the JSON text of { data, exp }
  apiState,                \* [lastError, lastErrorAt, invalidKey]
  validated,               \* validateKeyOnce has started
  clock,                   \* Date.now()
  reqs,                    \* the fetchQuote/fetchSeries calls in flight, oldest first
  last,                    \* history: the call that settled last
  calls, ticks,            \* how many calls were made, how often time advanced
  session,                 \* what the user of this session asks for
  written,                 \* history: key -> the last entry a resolution wrote
  fellBack,                \* history: key -> the last entry written by a resolution
                           \* whose first provider failed and whose second succeeded
  \* the App component (src/App.jsx) and its HoldingsTable
  phase,                   \* "new" before the mount effects, "mounted", "unmounted"
  holdings,                \* useState([]): sequence of [symbol, shares]
  prices, prevs,           \* useState({}): symbol -> number
  selected,                \* useState(null)
  refreshTick,             \* useState(0)
  isLoadingQuotes,         \* useState(false)
  refreshMetaRef,          \* useRef({ force: false })
  refreshCooldownRef,      \* useRef(0)
  runs,                    \* the runs of the quote-sync effect whose closure is alive
  pendingSync,             \* a dependency of the quote-sync effect changed
  pendingSelection,        \* a dependency of the selection effect changed
  events,                  \* how many user events happened
  lastEvent,               \* history: the last user event
  sortColumn,              \* HoldingsTable: useState(null)
  sortDirection,           \* HoldingsTable: useState("asc")
  streak                   \* history: the header clicked last and how often in a row

coreVars ==
  <<USE_MS, USE_FH, USE_AV, mem, localStorage, apiState, validated, clock,
    reqs, last, calls, ticks, session, written, fellBack>>

appVars ==
  <<phase, holdings, prices, prevs, selected, refreshTick, isLoadingQuotes,
    refreshMetaRef, refreshCooldownRef, runs, pendingSync, pendingSelection, events, lastEvent,
    sortColumn, sortDirection, streak>>

vars == <<coreVars, appVars>>

\* the JavaScript value null where a string can stand (selected)
JsNull == [t |-> "null", s |-> <<>>]

\* sortColumn = null, as a string so that it compares with column names
NoColumn == "null"

\* no user event yet, no header clicked yet
NoEvent == [op |-> "none"]
NoStreak == [column |-> "none", clicks |-> 0]

\* the state of App and HoldingsTable after construction: the useState and
\* useRef initial values (App.jsx:74-107, HoldingsTable.jsx:24-25)
AppConstructed ==
  /\ phase = "new"
  /\ holdings = <<>>
  /\ prices = [k \in {} |-> 0]
  /\ prevs = [k \in {} |-> 0]
  /\ selected = JsNull
  /\ refreshTick = 0
  /\ isLoadingQuotes = FALSE
  /\ refreshMetaRef = [force |-> FALSE]
  /\ refreshCooldownRef = 0
  /\ runs = <<>>
  /\ pendingSync = FALSE
  /\ pendingSelection = FALSE
  /\ events = 0
  /\ lastEvent = NoEvent
  /\ sortColumn = NoColumn
  /\ sortDirection = "asc"
  /\ streak = NoStreak

\* apiState.lastError = null, as a string so that it compares with messages
NoError == "null"

\* a call before its first step
NewReq ==
  [pc |-> "new", kind |-> "none", SYM |-> <<>>, interval |-> ONE_DAY, output |-> 0,
   step |-> 0,
   cached |-> Null, http |-> <<>>, attempts |-> <<>>, result |-> Null,
   src |-> "none", wrote |-> Null, cacheOps |-> 0, errs |-> 0, probeErrs |-> 0,
   freshAtCall |-> Null, fbAtCall |-> Null, staleAtCheck |-> Null]

Init ==
  /\ AppConstructed
  /\ USE_MS \in BOOLEAN
  /\ USE_FH \in BOOLEAN
  /\ USE_AV \in BOOLEAN
  /\ mem = [quotes |-> EmptyMap, series |-> EmptyMap]
  /\ localStorage = EmptyMap
  /\ apiState = [lastError |-> NoError, lastErrorAt |-> 0, invalidKey |-> FALSE]
  /\ validated = FALSE
  /\ clock = StartTime
  /\ reqs = <<>>
  /\ last = NewReq
  /\ calls = 0
  /\ ticks = 0
  /\ session \in Sessions
  /\ written = EmptyMap
  /\ fellBack = EmptyMap

\* function now()
now == clock

\* setError(msg)
setError(state, msg) ==
  [state EXCEPT !.lastError = msg, !.lastErrorAt = now]

\* apiState.invalidKey = true without the test of the message
markInvalidKeyAlways(state) == [state EXCEPT !.invalidKey = TRUE]

\* apiState.invalidKey = String(apiState.lastError)...includes(...): the flag
\* computed anew from every message
markInvalidKeyRecomputed(state) ==
  [state EXCEPT !.invalidKey = MentionsInvalidKey(state.lastError)]

\* if (String(apiState.lastError).toLowerCase().includes("invalid api key"))
\*   apiState.invalidKey = true
markInvalidKey(state) ==
  [state EXCEPT !.invalidKey = @ \/ MentionsInvalidKey(state.lastError)]

\* a catch block suspended between its two statements: the step records the
\* message and the time, the invalidKey test comes in a later step
recordFailureTorn(state, msg) == setError(state, msg)

\* the two statements that open every catch block of the module
recordFailure(state, msg) == markInvalidKey(setError(state, msg))

Use(prov) ==
  CASE prov = "MS" -> USE_MS
    [] prov = "FH" -> USE_FH
    [] prov = "AV" -> USE_AV

\* the provider blocks without the isTSX branch
ProviderOrderIgnoringSuffix(SYM) == <<"FH", "AV">>

\* the order of the provider blocks of resolveQuote / resolveSeries
ProviderOrder(SYM) ==
  IF endsWith(SYM, DOT_TO) THEN <<"MS", "AV">> ELSE <<"FH", "AV">>

\* the next block whether or not its key is configured
NextProviderAnyKey(SYM, from) ==
  IF from <= Len(ProviderOrder(SYM)) THEN from ELSE 0

\* the first block at or after position from whose key is configured, 0 if none
NextProvider(SYM, from) ==
  LET order == ProviderOrder(SYM)
      open == {i \in from..Len(order) : Use(order[i])}
  IN IF open = {} THEN 0 ELSE CHOOSE i \in open : \A j \in open : i <= j

requestOf(prov, sym, by) ==
  CASE prov = "MS" -> msRequest(sym, by)
    [] prov = "FH" -> fhRequest(sym, by)
    [] prov = "AV" -> avRequest(sym, by)

adapterFetch(prov, kind, sym, output, resp) ==
  CASE prov = "MS" /\ kind = "quote" -> msFetchQuote(USE_MS, sym, resp)
    [] prov = "MS" /\ kind = "series" -> msFetchSeries(USE_MS, sym, output, resp)
    [] prov = "FH" /\ kind = "quote" -> fhFetchQuote(USE_FH, sym, resp)
    [] prov = "FH" /\ kind = "series" -> fhFetchSeries(USE_FH, sym, output, resp)
    [] prov = "AV" /\ kind = "quote" -> avFetchQuote(USE_AV, sym, resp)
    [] prov = "AV" /\ kind = "series" -> avFetchSeries(USE_AV, sym, output, resp)

\* the success test reduced to "the adapter returned"
NonTrivialAnyData(kind, data) == TRUE

\* data && (data.price || data.previous_close); data.values.length > 0
NonTrivial(kind, data) ==
  IF kind = "quote" THEN data.price # 0 \/ data.previous_close # 0
  ELSE Len(data.values) > 0

\* the canonical quote with its two prices exchanged
canonicalQuoteSwapped(data) ==
  [price |-> data.previous_close,
   previous_close |-> data.price,
   change_percent |-> data.change_percent]

\* the quote resolveQuote caches and returns
canonicalQuote(data) ==
  [price |-> data.price,
   previous_close |-> data.previous_close,
   change_percent |-> data.change_percent]

\* the series resolveSeries caches and returns
canonicalSeries(data) ==
  LET mapped == [i \in 1..Len(data.values) |->
                   [datetime |-> data.values[i].datetime,
                    close |-> Num(NumberOrZero(data.values[i].close))]]
      HasDate(v) == v.datetime # 0
  IN [values |-> SelectSeq(mapped, HasDate)]

canonical(kind, data) ==
  IF kind = "quote" THEN canonicalQuote(data) ELSE canonicalSeries(data)

loadMock(kind, sym, output) ==
  IF kind = "quote" THEN loadMockQuote(sym) ELSE loadMockSeries(sym, output)

KeyOf(req) ==
  IF req.kind = "quote" THEN quoteKey(req.SYM)
  ELSE seriesKey(req.SYM, req.interval, req.output)

MapName(kind) == IF kind = "quote" THEN "quotes" ELSE "series"

TtlOf(kind) == IF kind = "quote" THEN QUOTE_TTL_MS ELSE SERIES_TTL_MS

ResolverName(kind) == IF kind = "quote" THEN "resolveQuote" ELSE "resolveSeries"

\* the inner catch of one provider block with its variant that records the
\* failure: catch (e) { setError(e.message); ...; data = null }
innerCatchRecording(req, api, msg) ==
  [req |-> [req EXCEPT !.errs = @ + 1], api |-> recordFailure(api, msg)]

\* the inner catch of one provider block: catch (e) { console.log(...);
\* data = null }; an empty result takes the else branch, data = null
innerCatch(req, api, msg) == [req |-> req, api |-> api]

\* the catch block without its first two statements: the mock data are
\* returned and nothing is recorded
TotalFailureSilent(req, api) ==
  [req |-> [req EXCEPT
              !.pc = "done",
              !.src = "mock",
              !.result = loadMock(req.kind, req.SYM, req.output)],
   api |-> api]

\* the catch block of resolveQuote / resolveSeries
TotalFailure(req, api) ==
  [req |-> [req EXCEPT
              !.pc = "done",
              !.errs = @ + 1,
              !.src = IF req.cached # Null THEN "stale" ELSE "mock",
              !.result = IF req.cached # Null THEN req.cached
                         ELSE loadMock(req.kind, req.SYM, req.output)],
   api |-> recordFailure(api, "All providers failed")]

\* the call of the adapter at position p of the order
Attempt(req, p) ==
  [req EXCEPT
     !.pc = "attempt",
     !.step = p,
     !.http = Append(@, requestOf(ProviderOrder(req.SYM)[p], req.SYM,
                                  ResolverName(req.kind)))]

\* resolveQuote / resolveSeries from its first line to its first await or
\* its return
BeginResolve(req, api, storageOk) ==
  LET key == KeyOf(req)
      map == mem[MapName(req.kind)]
      rc == readCache(map, localStorage, key, now, storageOk)
      r0 == [req EXCEPT
               !.cacheOps = @ + 1,
               !.cached = IF rc.val = Escaped THEN Null ELSE rc.val,
               !.staleAtCheck =
                  IF rc.val = Null /\ key \in DOMAIN map /\ map[key].exp <= now
                  THEN map[key].data ELSE Null]
      p == NextProvider(req.SYM, 1)
  IN IF rc.val = Escaped
     THEN [req |-> [r0 EXCEPT !.pc = "rejected"], map |-> rc.map, api |-> api]
     ELSE IF rc.val # Null
     THEN [req |-> [r0 EXCEPT !.pc = "done", !.result = rc.val, !.src = "cache"],
           map |-> rc.map, api |-> api]
     ELSE IF p = 0
     THEN [req |-> TotalFailure(r0, api).req, map |-> rc.map,
           api |-> TotalFailure(r0, api).api]
     ELSE [req |-> Attempt(r0, p), map |-> rc.map, api |-> api]

\* a call that has returned or thrown is no longer in flight
Settled(req) == req.pc \in {"done", "rejected"}

RemoveAt(seq, i) == SubSeq(seq, 1, i - 1) \o SubSeq(seq, i + 1, Len(seq))

\* the calls in flight and the last settled call once call i has become req
ReqsAfter(i, req) ==
  IF Settled(req) THEN RemoveAt(reqs, i) ELSE [reqs EXCEPT ![i] = req]

LastAfter(req) == IF Settled(req) THEN req ELSE last

\* the unexpired entry, if any, that the history variable h holds for key
Unexpired(h, key) ==
  IF key \in DOMAIN h /\ now < h[key].exp THEN h[key].data ELSE Null

\* validateKeyOnce without `if (validated) return`: every call probes
ProbeDueAlways == USE_FH \/ USE_AV

\* validateKeyOnce passes `if (validated) return` and has a provider to ask
ProbeDue == ~validated /\ (USE_FH \/ USE_AV)

\* fetchQuote(symbol) / fetchSeries(symbol, interval, output): validateKeyOnce
\* up to its await, and when it has nothing to await the resolver as well
CallWith(kind, symbol, interval, output, storageOk) ==
  /\ Len(reqs) < MaxReqs
  /\ calls < MaxCalls
  /\ calls' = calls + 1
  /\ LET r0 == [NewReq EXCEPT
                  !.kind = kind,
                  !.SYM = Normalize(symbol),
                  !.interval = interval,
                  !.output = output]
         r1 == [r0 EXCEPT
                  !.freshAtCall = Unexpired(written, KeyOf(r0)),
                  !.fbAtCall = IF KeyOf(r0) \in DOMAIN fellBack /\ fellBack[KeyOf(r0)].alone
                               THEN Unexpired(fellBack, KeyOf(r0)) ELSE Null]
         probe == IF USE_FH THEN "FH" ELSE "AV"
     IN IF ProbeDue
        THEN /\ reqs' = Append(reqs,
                           [r1 EXCEPT
                              !.pc = "probe",
                              !.http = <<requestOf(probe, AAPL, "validateKeyOnce")>>])
             /\ UNCHANGED <<mem, apiState, last>>
        ELSE LET b == BeginResolve(r1, apiState, storageOk)
             IN /\ reqs' = IF Settled(b.req) THEN reqs ELSE Append(reqs, b.req)
                /\ last' = LastAfter(b.req)
                /\ mem' = [mem EXCEPT ![MapName(kind)] = b.map]
                /\ apiState' = b.api
  /\ validated' = TRUE
  /\ UNCHANGED appVars
  /\ UNCHANGED <<USE_MS, USE_FH, USE_AV, localStorage, clock, ticks, session, written,
                 fellBack>>

\* the calls of the application: fetchQuote(symbol) and
\* fetchSeries(symbol, "1day", output)
Call(kind, symbol, output, storageOk) ==
  CallWith(kind, symbol, ONE_DAY, output, storageOk)

\* the probe of validateKeyOnce answers with resp: its catch, then the
\* resolver
ProbeResponseWith(i, storageOk, resp) ==
  /\ reqs[i].pc = "probe"
  /\ LET req == reqs[i]
         r == IF USE_FH THEN fhFetchQuote(USE_FH, AAPL, resp)
              ELSE avFetchQuote(USE_AV, AAPL, resp)
         api == IF r.thrown THEN recordFailure(apiState, r.msg) ELSE apiState
         r1 == [req EXCEPT !.errs = IF r.thrown THEN @ + 1 ELSE @,
                           !.probeErrs = IF r.thrown THEN @ + 1 ELSE @]
         b == BeginResolve(r1, api, storageOk)
     IN /\ reqs' = ReqsAfter(i, b.req)
        /\ last' = LastAfter(b.req)
        /\ mem' = [mem EXCEPT ![MapName(req.kind)] = b.map]
        /\ apiState' = b.api
  /\ UNCHANGED appVars
  /\ UNCHANGED <<USE_MS, USE_FH, USE_AV, localStorage, validated, clock, calls,
                 ticks, session, written, fellBack>>

\* the provider the probe asks
ProbeProvider == IF USE_FH THEN "FH" ELSE "AV"

ProbeResponse(i, storageOk) ==
  \E resp \in Responses(ProbeProvider, "quote") : ProbeResponseWith(i, storageOk, resp)

\* the provider the resolver awaits answers with resp: the rest of its try
\* block, up to the next await or to the return
ProviderResponseWith(i, storageOk, resp) ==
  /\ reqs[i].pc = "attempt"
  /\ LET req == reqs[i]
         prov == ProviderOrder(req.SYM)[req.step]
         key == KeyOf(req)
         r == adapterFetch(prov, req.kind, req.SYM, req.output, resp)
         ok == ~r.thrown /\ NonTrivial(req.kind, r.val)
         r0 == [req EXCEPT
                  !.attempts = Append(@,
                     [prov |-> prov,
                      outcome |-> IF r.thrown THEN "raise"
                                  ELSE IF ok THEN "ok" ELSE "empty",
                      data |-> r.val])]
         c == IF r.thrown THEN innerCatch(r0, apiState, r.msg)
              ELSE [req |-> r0, api |-> apiState]
         r1 == c.req
         p == NextProvider(req.SYM, req.step + 1)
         data == canonical(req.kind, r.val)
         entry == [data |-> data, exp |-> now + TtlOf(req.kind)]
         w == writeCache(mem[MapName(req.kind)], localStorage, key, data,
                         TtlOf(req.kind), now, storageOk)
     IN IF ok
        THEN /\ reqs' = RemoveAt(reqs, i)
             /\ last' = [r1 EXCEPT
                           !.pc = "done", !.result = data, !.src = "provider",
                           !.wrote = entry, !.cacheOps = @ + 1]
             /\ mem' = [mem EXCEPT ![MapName(req.kind)] = w.map]
             /\ localStorage' = w.store
             /\ written' = MapSet(written, key,
                                   [data |-> data, exp |-> entry.exp, kind |-> req.kind])
             /\ fellBack' =
                  IF Len(r1.attempts) = 2
                  THEN MapSet(fellBack, key,
                              [data |-> data, exp |-> entry.exp, kind |-> req.kind,
                               alone |-> \A j \in 1..Len(reqs) :
                                           j = i \/ KeyOf(reqs[j]) # key])
                  ELSE fellBack
             /\ UNCHANGED apiState
        ELSE IF p = 0
        THEN /\ reqs' = RemoveAt(reqs, i)
             /\ last' = TotalFailure(r1, c.api).req
             /\ apiState' = TotalFailure(r1, c.api).api
             /\ UNCHANGED <<mem, localStorage, written, fellBack>>
        ELSE /\ reqs' = [reqs EXCEPT ![i] = Attempt(r1, p)]
             /\ apiState' = c.api
             /\ UNCHANGED <<mem, localStorage, written, fellBack, last>>
  /\ UNCHANGED appVars
  /\ UNCHANGED <<USE_MS, USE_FH, USE_AV, validated, clock, calls, ticks, session>>

\* the provider call i awaits
AwaitedProvider(i) == ProviderOrder(reqs[i].SYM)[reqs[i].step]

ProviderResponse(i, storageOk) ==
  /\ reqs[i].pc = "attempt"
  /\ \E resp \in Responses(AwaitedProvider(i), reqs[i].kind) :
        ProviderResponseWith(i, storageOk, resp)

\* the clock advances by a short step and by the rest of the quote TTL in
\* turn, so that it passes the expiry of an entry written at StartTime exactly
TickStep(n) == IF n % 2 = 0 THEN ShortStep ELSE QUOTE_TTL_MS - ShortStep

\* time passes
Tick ==
  /\ ticks < MaxTicks
  /\ ticks' = ticks + 1
  /\ clock' = clock + TickStep(ticks)
  /\ UNCHANGED appVars
  /\ UNCHANGED <<USE_MS, USE_FH, USE_AV, mem, localStorage, apiState, validated,
                 reqs, last, calls, session, written, fellBack>>

Next ==
  \/ \E symbol \in session.symbols, storageOk \in BOOLEAN :
        Call(session.kind, symbol, session.output, storageOk)
  \/ \E i \in 1..Len(reqs), storageOk \in BOOLEAN : ProbeResponse(i, storageOk)
  \/ \E i \in 1..Len(reqs), storageOk \in BOOLEAN : ProviderResponse(i, storageOk)
  \/ Tick

Spec == Init /\ [][Next]_vars

\* ------------------------------------------------------------------------
\* Sessions in which every provider the resolver asks fails in one way
\* ------------------------------------------------------------------------
\* the two ways: the provider rejects the key, or it answers 200 with a
\* payload that lacks the data
Answers == {"key", "malformed"}

InvalidKeyResponse == [ok |-> FALSE, msg |-> "HTTP 401: Invalid API key", body |-> Null]

MalformedBody(prov, kind) ==
  CASE prov = "MS" -> [hasData |-> FALSE, data |-> <<>>]
    [] prov = "FH" /\ kind = "quote" -> [c |-> Num(0), pc |-> Num(0), dp |-> Undefined]
    [] prov = "FH" /\ kind = "series" ->
         [s |-> "no_data", hasArrays |-> FALSE, t |-> <<>>, c |-> <<>>]
    [] prov = "AV" /\ kind = "quote" ->
         [Information |-> FALSE, hasQuote |-> FALSE,
          GlobalQuote |-> [price |-> Undefined, previousClose |-> Undefined,
                           changePercent |-> Undefined]]
    [] prov = "AV" /\ kind = "series" ->
         [Information |-> FALSE, series |-> [d \in {} |-> Str]]

FailingResponse(prov, kind, answer) ==
  IF answer = "key" THEN InvalidKeyResponse ELSE Ok(MalformedBody(prov, kind))

FailingSessions ==
  {[kind |-> s.kind, symbols |-> s.symbols, output |-> s.output, answer |-> a] :
     s \in Sessions, a \in Answers}

FailingInit ==
  /\ AppConstructed
  /\ USE_MS \in BOOLEAN
  /\ USE_FH \in BOOLEAN
  /\ USE_AV \in BOOLEAN
  /\ mem = [quotes |-> EmptyMap, series |-> EmptyMap]
  /\ localStorage = EmptyMap
  /\ apiState = [lastError |-> NoError, lastErrorAt |-> 0, invalidKey |-> FALSE]
  /\ validated = FALSE
  /\ clock = StartTime
  /\ reqs = <<>>
  /\ last = NewReq
  /\ calls = 0
  /\ ticks = 0
  /\ session \in FailingSessions
  /\ written = EmptyMap
  /\ fellBack = EmptyMap

\* the provider the resolver awaits fails in the way of the session
FailingProviderResponse(i, storageOk) ==
  /\ reqs[i].pc = "attempt"
  /\ ProviderResponseWith(i, storageOk,
        FailingResponse(AwaitedProvider(i), reqs[i].kind, session.answer))

FailingNext ==
  \/ \E symbol \in session.symbols, storageOk \in BOOLEAN :
        Call(session.kind, symbol, session.output, storageOk)
  \/ \E i \in 1..Len(reqs), storageOk \in BOOLEAN : ProbeResponse(i, storageOk)
  \/ \E i \in 1..Len(reqs), storageOk \in BOOLEAN : FailingProviderResponse(i, storageOk)
  \/ Tick

FailingSpec == FailingInit /\ [][FailingNext]_vars

\* ------------------------------------------------------------------------
\* Builds without any provider key, asked for series of every short length
\* ------------------------------------------------------------------------
KeylessSessions ==
  {[kind |-> "quote", symbols |-> S, output |-> 0] : S \in SymbolSets}
    \cup {[kind |-> "series", symbols |-> S, output |-> n] :
            S \in SymbolSets, n \in 0..SmallOutput}

KeylessInit ==
  /\ AppConstructed
  /\ USE_MS = FALSE
  /\ USE_FH = FALSE
  /\ USE_AV = FALSE
  /\ mem = [quotes |-> EmptyMap, series |-> EmptyMap]
  /\ localStorage = EmptyMap
  /\ apiState = [lastError |-> NoError, lastErrorAt |-> 0, invalidKey |-> FALSE]
  /\ validated = FALSE
  /\ clock = StartTime
  /\ reqs = <<>>
  /\ last = NewReq
  /\ calls = 0
  /\ ticks = 0
  /\ session \in KeylessSessions
  /\ written = EmptyMap
  /\ fellBack = EmptyMap

KeylessNext ==
  \/ \E symbol \in session.symbols, storageOk \in BOOLEAN :
        Call(session.kind, symbol, session.output, storageOk)
  \/ Tick

KeylessSpec == KeylessInit /\ [][KeylessNext]_vars

\* ------------------------------------------------------------------------
\* Builds without any provider key, asked for one instrument spelled in every
\* mix of letter case and surrounding white space
\* ------------------------------------------------------------------------
\* the longest run of white space put before or after a symbol
MaxPad == 2

\* symbols as a user means them: no white space at either end
Cores ==
  {<<>>, <<"a">>, <<".", "t", "o">>, <<"ß">>}

\* a run of n white space characters, spaces and tabs in turn
Pad(n) == [i \in 1..n |-> IF i % 2 = 1 THEN " " ELSE "\t"]

\* the positions of core that hold a letter with an upper case form
Letters(core) ==
  {i \in 1..Len(core) : \E k \in 1..Len(Lower) : Lower[k] = core[i]}

\* core with the letters at the positions U in upper case
Recase(core, U) ==
  [i \in 1..Len(core) |->
     IF i \in U THEN Upper[CHOOSE k \in 1..Len(Lower) : Lower[k] = core[i]]
     ELSE core[i]]

\* the spellings of core: any letters in upper case, white space around
Spellings(core) ==
  {[t |-> "str", s |-> Pad(l) \o Recase(core, U) \o Pad(r)] :
     U \in SUBSET Letters(core), l \in 0..MaxPad, r \in 0..MaxPad}

\* one or two spellings of one symbol, or a missing symbol
SpellingSets ==
  {{[t |-> "null", s |-> <<>>]}, {[t |-> "undefined", s |-> <<>>]}}
    \cup UNION {{{s1, s2} : s1 \in Spellings(core), s2 \in Spellings(core)} :
                 core \in Cores}

SpellingSessions ==
  {[kind |-> k, symbols |-> S, output |-> IF k = "series" THEN SmallOutput ELSE 0] :
     k \in {"quote", "series"}, S \in SpellingSets}

SpellingInit ==
  /\ AppConstructed
  /\ USE_MS = FALSE
  /\ USE_FH = FALSE
  /\ USE_AV = FALSE
  /\ mem = [quotes |-> EmptyMap, series |-> EmptyMap]
  /\ localStorage = EmptyMap
  /\ apiState = [lastError |-> NoError, lastErrorAt |-> 0, invalidKey |-> FALSE]
  /\ validated = FALSE
  /\ clock = StartTime
  /\ reqs = <<>>
  /\ last = NewReq
  /\ calls = 0
  /\ ticks = 0
  /\ session \in SpellingSessions
  /\ written = EmptyMap
  /\ fellBack = EmptyMap

SpellingSpec == SpellingInit /\ [][KeylessNext]_vars

\* ------------------------------------------------------------------------
\* Builds with the key of one provider, which answers 200 with one payload:
\* well formed, in another order, with repeated dates, with fields that are
\* missing, not numeric or negative
\* ------------------------------------------------------------------------
A_TO_TO == <<"A", ".", "T", "O", ".", "T", "O">>

\* the longest list of payloads of one endpoint
MaxPayloads == 6

\* the body of /v1/eod, for quotes and for series
MsPayloads ==
  <<[hasData |-> TRUE,
     data |-> <<MsRow(4, Num(2460), Num(2445)), MsRow(3, Num(2440), Num(2420)),
                MsRow(2, Num(2400), Num(2390))>>],
    [hasData |-> TRUE,
     data |-> <<MsRow(2, Num(2400), Num(2390)), MsRow(3, Num(2440), Num(2420))>>],
    [hasData |-> TRUE,
     data |-> <<MsRow(3, Num(2460), Num(2445)), MsRow(3, Num(2450), Num(2445))>>],
    [hasData |-> TRUE,
     data |-> <<MsRow(3, Str, Str), MsRow(2, Num(2440), Num(2420))>>],
    [hasData |-> TRUE, data |-> <<MsRow(3, Num(-5), Num(-4))>>],
    [hasData |-> FALSE, data |-> <<>>]>>

\* the body of /api/v1/quote
FhQuotePayloads ==
  <<[c |-> Num(15000), pc |-> Num(14900), dp |-> Num(67)],
    [c |-> Undefined, pc |-> Undefined, dp |-> Undefined],
    [c |-> Num(-5), pc |-> Num(10), dp |-> Num(-150)],
    [c |-> Str, pc |-> Num(14900), dp |-> Str]>>

\* the body of /api/v1/stock/candle
FhSeriesPayloads ==
  <<[s |-> "ok", hasArrays |-> TRUE,
     t |-> <<2 * SECONDS_PER_DAY, 3 * SECONDS_PER_DAY, 4 * SECONDS_PER_DAY>>,
     c |-> <<Num(14900), Num(14950), Num(15000)>>],
    [s |-> "ok", hasArrays |-> TRUE,
     t |-> <<4 * SECONDS_PER_DAY, 2 * SECONDS_PER_DAY>>,
     c |-> <<Num(15000), Num(14900)>>],
    [s |-> "ok", hasArrays |-> TRUE,
     t |-> <<3 * SECONDS_PER_DAY, 3 * SECONDS_PER_DAY + 3600>>,
     c |-> <<Num(14950), Num(14960)>>],
    [s |-> "ok", hasArrays |-> TRUE,
     t |-> <<2 * SECONDS_PER_DAY, 3 * SECONDS_PER_DAY>>,
     c |-> <<Str, Num(14950)>>],
    [s |-> "ok", hasArrays |-> FALSE, t |-> <<>>, c |-> <<>>]>>

\* the body of function=GLOBAL_QUOTE
AvQuotePayloads ==
  <<[Information |-> FALSE, hasQuote |-> TRUE,
     GlobalQuote |-> [price |-> Num(15100), previousClose |-> Num(14950),
                      changePercent |-> Num(100)]],
    [Information |-> FALSE, hasQuote |-> TRUE,
     GlobalQuote |-> [price |-> Str, previousClose |-> Num(14950),
                      changePercent |-> Undefined]],
    [Information |-> FALSE, hasQuote |-> TRUE,
     GlobalQuote |-> [price |-> Num(-5), previousClose |-> Num(10),
                      changePercent |-> Num(-150)]],
    [Information |-> FALSE, hasQuote |-> FALSE,
     GlobalQuote |-> [price |-> Undefined, previousClose |-> Undefined,
                      changePercent |-> Undefined]]>>

\* the body of function=TIME_SERIES_DAILY
AvSeriesPayloads ==
  <<[Information |-> FALSE,
     series |-> [d \in {2, 3, 4} |-> Num(14700 + d * 100)]],
    [Information |-> FALSE,
     series |-> [d \in {2, 3} |-> IF d = 2 THEN Str ELSE Num(15000)]],
    [Information |-> FALSE, series |-> [d \in {} |-> Str]]>>

Payloads(prov, kind) ==
  CASE prov = "MS" -> MsPayloads
    [] prov = "FH" /\ kind = "quote" -> FhQuotePayloads
    [] prov = "FH" /\ kind = "series" -> FhSeriesPayloads
    [] prov = "AV" /\ kind = "quote" -> AvQuotePayloads
    [] prov = "AV" /\ kind = "series" -> AvSeriesPayloads

\* the symbols the resolver takes to the provider
PayloadSymbols(prov) ==
  CASE prov = "MS" -> {AC_TO, A_TO_TO}
    [] prov = "FH" -> {AAPL}
    [] prov = "AV" -> {AAPL, AC_TO}

PayloadSessions(prov) ==
  {[kind |-> k, symbols |-> {[t |-> "str", s |-> sym]}, output |-> n,
    provider |-> prov, answer |-> a] :
     k \in {"quote", "series"}, sym \in PayloadSymbols(prov), n \in 0..SmallOutput,
     a \in 1..MaxPayloads}

PayloadInit ==
  /\ AppConstructed
  /\ \E prov \in {"MS", "FH", "AV"} :
       /\ USE_MS = (prov = "MS")
       /\ USE_FH = (prov = "FH")
       /\ USE_AV = (prov = "AV")
       /\ session \in {s \in PayloadSessions(prov) :
                          /\ s.answer <= Len(Payloads(prov, s.kind))
                          /\ s.kind = "quote" => s.output = 0}
  /\ mem = [quotes |-> EmptyMap, series |-> EmptyMap]
  /\ localStorage = EmptyMap
  /\ apiState = [lastError |-> NoError, lastErrorAt |-> 0, invalidKey |-> FALSE]
  /\ validated = FALSE
  /\ clock = StartTime
  /\ reqs = <<>>
  /\ last = NewReq
  /\ calls = 0
  /\ ticks = 0
  /\ written = EmptyMap
  /\ fellBack = EmptyMap

\* the payload the provider of the session sends
PayloadResponse == Ok(Payloads(session.provider, session.kind)[session.answer])

\* the provider the resolver awaits answers with the payload of the session
PayloadProviderResponse(i, storageOk) ==
  /\ reqs[i].pc = "attempt"
  /\ ProviderResponseWith(i, storageOk, PayloadResponse)

PayloadNext ==
  \/ \E symbol \in session.symbols, storageOk \in BOOLEAN :
        Call(session.kind, symbol, session.output, storageOk)
  \/ \E i \in 1..Len(reqs), storageOk \in BOOLEAN : ProbeResponse(i, storageOk)
  \/ \E i \in 1..Len(reqs), storageOk \in BOOLEAN : PayloadProviderResponse(i, storageOk)
  \/ Tick

PayloadSpec == PayloadInit /\ [][PayloadNext]_vars

\* ------------------------------------------------------------------------
\* Builds with the Marketstack key, asked for two requests of any two shapes
\* ------------------------------------------------------------------------
ONE_WEEK == <<"1", "w", "e", "e", "k">>

\* Toronto symbols as the caller spells them
ShapeSymbols ==
  {<<"a", ".", "t", "o">>, <<" ", "A", ".", "T", "O">>, <<"a", "1", ".", "t", "o">>}

\* the output counts asked for: of one digit and of two
ShapeOutputs == {1, 11}

\* a request shape: fetchQuote(symbol) or fetchSeries(symbol, interval, output)
Shapes ==
  {[kind |-> "quote", symbol |-> [t |-> "str", s |-> sym], interval |-> ONE_DAY,
    output |-> 0] : sym \in ShapeSymbols}
    \cup {[kind |-> "series", symbol |-> [t |-> "str", s |-> sym], interval |-> i,
            output |-> n] :
            sym \in ShapeSymbols, i \in {ONE_DAY, ONE_WEEK}, n \in ShapeOutputs}

ShapeSessions == {[shapes |-> {a, b}] : a \in Shapes, b \in Shapes}

ShapeInit ==
  /\ AppConstructed
  /\ USE_MS = TRUE
  /\ USE_FH = FALSE
  /\ USE_AV = FALSE
  /\ mem = [quotes |-> EmptyMap, series |-> EmptyMap]
  /\ localStorage = EmptyMap
  /\ apiState = [lastError |-> NoError, lastErrorAt |-> 0, invalidKey |-> FALSE]
  /\ validated = FALSE
  /\ clock = StartTime
  /\ reqs = <<>>
  /\ last = NewReq
  /\ calls = 0
  /\ ticks = 0
  /\ session \in ShapeSessions
  /\ written = EmptyMap
  /\ fellBack = EmptyMap

\* Marketstack answers the call with its well formed payload
ShapeProviderResponse(i, storageOk) ==
  /\ reqs[i].pc = "attempt"
  /\ ProviderResponseWith(i, storageOk, Ok(MsPayloads[1]))

ShapeNext ==
  \/ \E shape \in session.shapes, storageOk \in BOOLEAN :
        CallWith(shape.kind, shape.symbol, shape.interval, shape.output, storageOk)
  \/ \E i \in 1..Len(reqs), storageOk \in BOOLEAN : ShapeProviderResponse(i, storageOk)
  \/ Tick

ShapeSpec == ShapeInit /\ [][ShapeNext]_vars

\* ------------------------------------------------------------------------
\* Properties
\* ------------------------------------------------------------------------
\* every call that has started: those in flight and the one that settled last
Started == {reqs[i] : i \in 1..Len(reqs)} \cup (IF last.pc = "new" THEN {} ELSE {last})

\* what a cache read of key returns now
WouldRead(kind, key, storageOk) ==
  readCache(mem[MapName(kind)], localStorage, key, now, storageOk).val

\* the HTTP requests the resolver of a call sent (not the validation probe)
ResolverHttp(req) == SelectSeq(req.http, LAMBDA h : h.by # "validateKeyOnce")

Configured == {p \in {"MS", "FH", "AV"} : Use(p)}

ZeroQuote == [price |-> 0, previous_close |-> 0]

\* C1: once a resolution has written the cache, until that entry expires a
\* cache read of the fingerprint returns the written value, and a call made
\* in that window returns it at once without any provider HTTP request.
C1_FreshEntryServedWithoutUpstream ==
  /\ \A key \in DOMAIN written :
       now < written[key].exp =>
         \A storageOk \in BOOLEAN :
           WouldRead(written[key].kind, key, storageOk) = written[key].data
  /\ \A i \in 1..Len(reqs) : reqs[i].freshAtCall = Null
  /\ last.freshAtCall # Null =>
       /\ last.pc = "done"
       /\ last.src = "cache"
       /\ last.result = last.freshAtCall
       /\ last.http = <<>>

C1_Witness ==
  /\ last.pc = "done"
  /\ last.freshAtCall # Null
  /\ last.result = last.freshAtCall
  /\ clock > StartTime

\* C2: a cache read returns the written value at every time before the
\* expiry of the entry and null at the expiry and at every later time.
C2_ReadExpiresAtExp ==
  \A key \in DOMAIN written :
    \A storageOk \in BOOLEAN :
      WouldRead(written[key].kind, key, storageOk) =
        IF now < written[key].exp THEN written[key].data ELSE Null

\* C3: when every attempted provider has failed and an expired entry exists
\* for the fingerprint, the call returns that stale value; mock data is
\* returned only when no cached value exists.
C3_StalePreferredOverMock ==
  (last.pc = "done" /\ last.src \notin {"cache", "provider"}
     /\ last.staleAtCheck # Null)
    => last.result = last.staleAtCheck

\* a structurally valid Quote ({price, previous_close}) / Series ({values})
ValidQuote(q) ==
  /\ {"price", "previous_close"} \subseteq DOMAIN q
  /\ q.price \in Int
  /\ q.previous_close \in Int

ValidSeries(r) ==
  /\ "values" \in DOMAIN r
  /\ \A i \in 1..Len(r.values) : {"datetime", "close"} \subseteq DOMAIN r.values[i]

\* C4: no call rejects: whatever the symbol, the keys, the provider answers
\* and the storage failures, a call that has settled has returned a
\* structurally valid Quote or Series.
C4_NeverRejects ==
  /\ \A i \in 1..Len(reqs) : reqs[i].pc \in {"probe", "attempt"}
  /\ last.pc \in {"new", "done"}
  /\ last.pc = "done" =>
       IF last.kind = "quote" THEN ValidQuote(last.result)
       ELSE ValidSeries(last.result)

C4_Witness ==
  /\ last.pc = "done"
  /\ last.src = "mock"
  /\ Len(last.attempts) = 2
  /\ \E i \in 1..2 : last.attempts[i].outcome = "raise"
  /\ \E i \in 1..2 : last.attempts[i].outcome = "empty"

\* the call made its attempts at a sole configured provider, and all raised
SoleProviderRaised(req) ==
  /\ req.pc = "done"
  /\ req.kind = "quote"
  /\ Cardinality(Configured) = 1
  /\ req.attempts # <<>>
  /\ \A i \in 1..Len(req.attempts) : req.attempts[i].outcome = "raise"

\* C5: when the one configured provider raises on every attempt, fetchQuote
\* returns the mock quote of the symbol (the zero quote for a symbol the mock
\* table lacks) and apiState.lastError is non-null afterwards.
C5_SoleProviderRaisesGivesMock ==
  SoleProviderRaised(last) =>
    /\ last.result =
         IF last.SYM = AAPL THEN [price |-> 23012, previous_close |-> 22784]
         ELSE IF last.SYM = AC_TO THEN [price |-> 2450, previous_close |-> 2430]
         ELSE ZeroQuote
    /\ apiState.lastError # NoError

C5_Witness == SoleProviderRaised(last) /\ last.SYM = AAPL

C5_WitnessZero == SoleProviderRaised(last) /\ last.SYM = <<>>

\* the first provider of the call failed and its second succeeded
FellBackOk(req) ==
  /\ req.pc = "done"
  /\ req.kind = "quote"
  /\ Len(req.attempts) = 2
  /\ req.attempts[2].outcome = "ok"

\* the call returned the canonical quote of its second provider and wrote it
ReturnsSecondProvider(req) ==
  /\ req.result = [price |-> req.attempts[2].data.price,
                   previous_close |-> req.attempts[2].data.previous_close,
                   change_percent |-> req.attempts[2].data.change_percent]
  /\ req.wrote = [data |-> req.result, exp |-> req.wrote.exp]

\* C6 as stated: after a fallback success the second provider's quote is
\* returned and cached, and until its expiry every fetchQuote of the symbol
\* gets that same value.
C6_FallbackValueServedUntilExpiry ==
  /\ FellBackOk(last) => ReturnsSecondProvider(last)
  /\ \A key \in DOMAIN fellBack :
       (fellBack[key].kind = "quote" /\ now < fellBack[key].exp) =>
         \A storageOk \in BOOLEAN :
           WouldRead("quote", key, storageOk) = fellBack[key].data

\* C6 as amended: the same, provided no other resolution of the symbol was in
\* flight when the second provider's value was written; and a call made in
\* that window returns the value without any provider HTTP request.
C6_FallbackValueServedUnlessOverwritten ==
  /\ FellBackOk(last) => ReturnsSecondProvider(last)
  /\ \A key \in DOMAIN fellBack :
       (fellBack[key].kind = "quote" /\ fellBack[key].alone
          /\ now < fellBack[key].exp) =>
         \A storageOk \in BOOLEAN :
           WouldRead("quote", key, storageOk) = fellBack[key].data
  /\ \A i \in 1..Len(reqs) : reqs[i].fbAtCall = Null
  /\ (last.kind = "quote" /\ last.fbAtCall # Null) =>
       /\ last.pc = "done"
       /\ last.result = last.fbAtCall
       /\ last.http = <<>>

C6_Witness ==
  /\ last.pc = "done"
  /\ last.kind = "quote"
  /\ last.fbAtCall # Null
  /\ last.result = last.fbAtCall
  /\ last.result.price = 15100
  /\ clock > StartTime

IsTSX(req) == endsWith(req.SYM, DOT_TO)

\* the providers of a sequence of requests or attempts, in order
Provs(seq) == [i \in 1..Len(seq) |-> seq[i].prov]

\* C7 as stated: a call for a ".TO" symbol tries Marketstack before Alpha
\* Vantage and sends no HTTP request to Finnhub at any point.
C7_TsxNeverContactsFinnhub ==
  \A req \in Started :
    IsTSX(req) =>
      /\ \A i \in 1..Len(req.http) : req.http[i].prov # "FH"
      /\ Provs(req.attempts) \in {<<>>, <<"MS">>, <<"AV">>, <<"MS", "AV">>}

\* C7 as amended: the resolver of such a call tries Marketstack before Alpha
\* Vantage and sends nothing to Finnhub; the only Finnhub request of the call
\* is the key validation probe for AAPL, the first request of the first call.
C7_TsxResolverNeverContactsFinnhub ==
  \A req \in Started :
    IsTSX(req) =>
      /\ Provs(req.attempts) \in {<<>>, <<"MS">>, <<"AV">>, <<"MS", "AV">>}
      /\ Provs(ResolverHttp(req)) \in {<<>>, <<"MS">>, <<"AV">>, <<"MS", "AV">>}
      /\ \A i \in 1..Len(req.http) :
           req.http[i].prov = "FH" =>
             /\ i = 1
             /\ req.http[i] = [prov |-> "FH", sym |-> AAPL, by |-> "validateKeyOnce"]

C7_Witness ==
  /\ IsTSX(last)
  /\ last.pc = "done"
  /\ Provs(last.http) = <<"FH", "MS", "AV">>
  /\ Provs(last.attempts) = <<"MS", "AV">>

\* a trivially empty result: a quote of two zeros, a series of no points
TriviallyEmpty(kind, data) ==
  IF kind = "quote" THEN data.price = 0 /\ data.previous_close = 0
  ELSE data.values = <<>>

\* C8: for a symbol outside the TSX with Finnhub and Alpha Vantage both
\* configured, Finnhub is tried first, Alpha Vantage only after the Finnhub
\* attempt has raised or returned a trivially empty result, never after it
\* succeeded, and the two requests are never outstanding together.
C8_FinnhubThenAlphaVantage ==
  \A req \in Started :
    (~IsTSX(req) /\ USE_FH /\ USE_AV) =>
      /\ Provs(req.attempts) \in {<<>>, <<"FH">>, <<"FH", "AV">>}
      /\ Provs(ResolverHttp(req)) \in {<<>>, <<"FH">>, <<"FH", "AV">>}
      /\ Len(ResolverHttp(req)) <= Len(req.attempts) + 1
      /\ \A i \in 1..Len(req.attempts) :
           LET a == req.attempts[i]
           IN /\ a.outcome \in {"raise", "empty", "ok"}
              /\ a.outcome = "empty" => TriviallyEmpty(req.kind, a.data)
              /\ a.outcome = "ok" => ~TriviallyEmpty(req.kind, a.data)
      /\ Len(ResolverHttp(req)) = 2 =>
           /\ Len(req.attempts) >= 1
           /\ req.attempts[1].outcome \in {"raise", "empty"}
      /\ (req.attempts # <<>> /\ req.attempts[1].outcome = "ok") =>
           /\ req.pc = "done"
           /\ Len(req.attempts) = 1

C8_Witness ==
  /\ ~IsTSX(last) /\ USE_FH /\ USE_AV
  /\ last.pc = "done"
  /\ Len(last.attempts) = 2
  /\ last.attempts[1].outcome = "empty"
  /\ last.attempts[2].outcome = "ok"

\* C9: a call whose normalized symbol is empty returns the zero quote or the
\* empty series at once, with no provider HTTP request and no access to
\* either cache tier.
C9_EmptySymbolShortCircuits ==
  \A req \in Started :
    req.SYM = <<>> =>
      /\ req.pc = "done"
      /\ req.http = <<>>
      /\ req.cacheOps = 0
      /\ req.result = IF req.kind = "quote" THEN ZeroQuote ELSE [values |-> <<>>]

\* C10: no call sends an HTTP request to a provider whose key is absent, and
\* such a provider is not among the attempts of any resolution.
C10_UnconfiguredProviderSkipped ==
  \A req \in Started :
    /\ \A i \in 1..Len(req.http) : Use(req.http[i].prov)
    /\ \A i \in 1..Len(req.attempts) : Use(req.attempts[i].prov)

C10_Witness ==
  /\ Cardinality(Configured) = 1
  /\ last.pc = "done"
  /\ last.src = "provider"
  /\ Len(last.attempts) = 1
  /\ last.attempts[1].prov = "AV"

\* C11: a failure is recorded only when a configured provider was attempted
\* and failed; with no key configured at all a call returns mock data and
\* leaves apiState.lastError and apiState.lastErrorAt as they were.
C11_NoProviderNoFailureRecorded ==
  /\ (Configured = {} /\ last.pc = "done") =>
       /\ last.src = "mock"
       /\ apiState.lastError = NoError
       /\ apiState.lastErrorAt = 0
  /\ (last.pc = "done" /\ last.attempts = <<>> /\ last.http = <<>>) =>
       last.errs = 0

\* the call has returned a value served from the cache or from a provider
Succeeded(req) == req.pc = "done" /\ req.src \in {"cache", "provider"}

\* C12 as stated: a call whose resolution succeeds makes no update of
\* apiState, the first call of the process included.
C12_SuccessLeavesApiState ==
  Succeeded(last) => last.errs = 0

\* C12 as amended: the resolver of a call that succeeds makes no update of
\* apiState; the one update such a call can make is that of validateKeyOnce,
\* when the probe sent by the first call of the process raises.
C12_SuccessfulResolverLeavesApiState ==
  /\ \A req \in Started :
       /\ req.probeErrs <= 1
       /\ req.probeErrs = 1 =>
            /\ req.http # <<>>
            /\ req.http[1].by = "validateKeyOnce"
       /\ (Succeeded(req) \/ req.pc \in {"probe", "attempt"}) =>
            req.errs = req.probeErrs
  /\ (calls = 1 /\ Succeeded(last)) =>
       /\ (apiState.lastError = NoError) = (last.probeErrs = 0)
       /\ (apiState.lastErrorAt = 0) = (last.probeErrs = 0)
       /\ apiState.invalidKey => last.probeErrs = 1

C12_Witness ==
  /\ Succeeded(last)
  /\ last.src = "provider"
  /\ Len(last.attempts) = 2
  /\ last.probeErrs = 1
  /\ apiState.lastError # NoError

\* the call has ended in total failure: it returned from the catch block
TotalFailed(req) == req.pc = "done" /\ req.src \notin {"cache", "provider"}

\* C13 as stated: a call that ends in total failure makes exactly one update
\* of apiState.lastError and apiState.lastErrorAt.
C13_TotalFailureRecordedOnce ==
  TotalFailed(last) => last.errs = 1

\* C13 as amended: the resolver of such a call makes exactly one update, in
\* its catch block once the chain is exhausted; the call makes one more only
\* when it is the first of the process and its validation probe raised.
C13_ResolverRecordsTotalFailureOnce ==
  /\ TotalFailed(last) =>
       /\ last.errs = 1 + last.probeErrs
       /\ last.probeErrs \in {0, 1}
       /\ last.probeErrs = 1 => last.http[1].by = "validateKeyOnce"
  /\ (TotalFailed(last) /\ reqs = <<>>) =>
       /\ apiState.lastError = "All providers failed"
       /\ apiState.lastErrorAt >= StartTime
       /\ apiState.lastErrorAt <= now

C13_Witness ==
  /\ TotalFailed(last)
  /\ Len(last.attempts) = 2
  /\ last.probeErrs = 1
  /\ last.errs = 2
  /\ apiState.lastError = "All providers failed"

\* an attempt of the call raised
SomeAttemptRaised(req) ==
  \E i \in 1..Len(req.attempts) : req.attempts[i].outcome = "raise"

\* C14 (sessions of FailingSpec): after a total failure in which an attempted
\* provider rejected the key, apiState.invalidKey is true; after one in which
\* no attempted provider did, the request has not set invalidKey.
C14_KeyFailureSetsInvalidKey ==
  /\ (session.answer = "key" /\ TotalFailed(last) /\ SomeAttemptRaised(last)) =>
       apiState.invalidKey
  /\ (session.answer = "malformed" /\ TotalFailed(last) /\ last.probeErrs = 0
        /\ calls = 1) =>
       ~apiState.invalidKey

\* only the Marketstack key is configured
OnlyMarketstack == USE_MS /\ ~USE_FH /\ ~USE_AV

\* C15 (sessions of FailingSpec): for "AC.TO" with only Marketstack
\* configured and a payload without the data array, fetchQuote returns the
\* mock quote 24.50 / 24.30 (in hundredths), and apiState.invalidKey keeps
\* the value it had: no call of such a process sets it.
C15_MalformedTsxPayloadGivesMock ==
  (OnlyMarketstack /\ session.answer = "malformed") =>
    /\ ~apiState.invalidKey
    /\ (last.pc = "done" /\ last.kind = "quote" /\ last.SYM = AC_TO) =>
         /\ last.attempts = <<[prov |-> "MS", outcome |-> "raise", data |-> Null]>>
         /\ last.src = "mock"
         /\ last.result = [price |-> 2450, previous_close |-> 2430]
         /\ apiState.lastError = "All providers failed"

C15_Witness ==
  /\ OnlyMarketstack
  /\ session.answer = "malformed"
  /\ last.pc = "done"
  /\ last.kind = "quote"
  /\ last.SYM = AC_TO
  /\ last.result = [price |-> 2450, previous_close |-> 2430]
  /\ calls = 2

\* C16: with no provider configured, the second of two fetchQuote("AAPL")
\* calls made within one second is served from the in-memory tier, where the
\* result of the first was cached, and sends no provider request.
C16_SecondCallServedFromMemory ==
  (Configured = {} /\ calls = 2 /\ clock - StartTime < 1000
     /\ last.pc = "done" /\ last.kind = "quote" /\ last.SYM = AAPL) =>
    /\ last.src = "cache"
    /\ last.http = <<>>
    /\ quoteKey(AAPL) \in DOMAIN mem.quotes

\* the last n points of a mock series whose first close is base hundredths
\* and which rises by step hundredths a day: days 31 - n to 30 of 2025-09
MockTail(base, step, n) ==
  [values |->
     [i \in 1..n |->
        [datetime |-> MockSeriesLength - n + i,
         close |-> Num(base + (MockSeriesLength - n + i - 1) * step)]]]

\* C17 (builds of KeylessSpec): with no key configured fetchQuote returns the mock quote of the
\* symbol (the zero quote for a symbol outside the mock table), fetchSeries
\* the mock series cut to its last `output` points, and no provider HTTP
\* request is made.
C17_NoKeysGivesMock ==
  Configured = {} =>
    /\ reqs = <<>>
    /\ last.pc = "done" =>
         /\ last.http = <<>>
         /\ last.attempts = <<>>
         /\ last.kind = "quote" =>
              last.result =
                IF last.SYM = AAPL THEN [price |-> 23012, previous_close |-> 22784]
                ELSE IF last.SYM = AC_TO THEN [price |-> 2450, previous_close |-> 2430]
                ELSE ZeroQuote
         /\ last.kind = "series" =>
              last.result =
                IF last.SYM = AAPL THEN MockTail(22000, 40, last.output)
                ELSE IF last.SYM = AC_TO THEN MockTail(2350, 5, last.output)
                ELSE [values |-> <<>>]

\* the entry written for data read back at time t: from the in-memory tier
\* (storage failing), from localStorage, and through the rehydrating read
ReadBackFromMemory(key, data, t) ==
  LET w == writeCache(EmptyMap, EmptyMap, key, data, SERIES_TTL_MS, now, TRUE)
  IN readCache(w.map, EmptyMap, key, t, FALSE).val

ReadBackFromStorage(key, data, t) ==
  LET w == writeCache(EmptyMap, EmptyMap, key, data, SERIES_TTL_MS, now, TRUE)
  IN readLS(w.store, key, t, TRUE)

ReadBackRehydrated(key, data, t) ==
  LET w == writeCache(EmptyMap, EmptyMap, key, data, SERIES_TTL_MS, now, TRUE)
  IN readCache(EmptyMap, w.store, key, t, TRUE).val

\* C18: a series of N points written to the cache and read back before its
\* expiry is the same N points, in the same order, with the same date and
\* close strings, from the in-memory tier and from the durable tier alike.
C18_SeriesRoundTrip ==
  /\ \A key \in DOMAIN written :
       written[key].kind = "series" =>
         \A t \in {now, now + SERIES_TTL_MS - 1} :
           /\ ReadBackFromMemory(key, written[key].data, t) = written[key].data
           /\ ReadBackFromStorage(key, written[key].data, t) = written[key].data
           /\ ReadBackRehydrated(key, written[key].data, t) = written[key].data
  /\ (calls = 1 /\ last.pc = "done" /\ last.kind = "series" /\ last.src = "provider") =>
       /\ mem.series[KeyOf(last)].data = last.result
       /\ KeyOf(last) \in DOMAIN localStorage =>
            readLS(localStorage, KeyOf(last), last.wrote.exp - 1, TRUE) = last.result

C18_Witness ==
  /\ calls = 1
  /\ last.pc = "done"
  /\ last.kind = "series"
  /\ last.src = "provider"
  /\ Len(last.result.values) = SmallOutput
  /\ last.result.values[1].datetime < last.result.values[2].datetime
  /\ KeyOf(last) \in DOMAIN localStorage
  /\ readLS(localStorage, KeyOf(last), now, TRUE) = last.result

\* a normalized symbol given to the normalization again
Renormalize(SYM) == Normalize([t |-> "str", s |-> SYM])

\* C19 (sessions of SpellingSpec): normalization is idempotent: the symbol a
\* call works with, the normalization of its input (null, undefined and the
\* empty string included), is left as it is by a second normalization.
C19_NormalizeIdempotent ==
  /\ \A s \in session.symbols : Renormalize(Normalize(s)) = Normalize(s)
  /\ \A req \in Started :
       /\ \E s \in session.symbols : req.SYM = Normalize(s)
       /\ Renormalize(req.SYM) = req.SYM

C19_Witness ==
  /\ last.pc = "done"
  /\ last.SYM = <<".", "T", "O">>
  /\ [t |-> "str", s |-> <<" ", "\t", ".", "t", "O", " ">>] \in session.symbols
  /\ Renormalize(last.SYM) = last.SYM

\* C20 (sessions of SpellingSpec): two spellings that differ only in letter
\* case and in leading and trailing white space have one canonical symbol,
\* hence one cache fingerprint and one order of providers.
C20_SpellingsShareSymbol ==
  /\ \A s1 \in session.symbols, s2 \in session.symbols :
       /\ Normalize(s1) = Normalize(s2)
       /\ quoteKey(Normalize(s1)) = quoteKey(Normalize(s2))
       /\ seriesKey(Normalize(s1), ONE_DAY, session.output)
            = seriesKey(Normalize(s2), ONE_DAY, session.output)
       /\ ProviderOrder(Normalize(s1)) = ProviderOrder(Normalize(s2))
  /\ \A req \in Started :
       \A s \in session.symbols :
         /\ req.SYM = Normalize(s)
         /\ KeyOf(req) = KeyOf([req EXCEPT !.SYM = Normalize(s)])

C20_Witness ==
  /\ last.pc = "done"
  /\ calls = 2
  /\ last.SYM = <<".", "T", "O">>
  /\ ProviderOrder(last.SYM) = <<"MS", "AV">>
  /\ session.symbols = {[t |-> "str", s |-> <<" ", ".", "T", "o">>],
                        [t |-> "str", s |-> <<".", "t", "o", " ", "\t">>]}

\* the durable tier does not hold the entry that was written last for key:
\* localStorage.setItem threw in that write
DurableWriteFailed(key) ==
  \/ key \notin DOMAIN localStorage
  \/ JSONparse(localStorage[key]) # [data |-> written[key].data, exp |-> written[key].exp]

\* C21: when the durable write of a cache write fails, the call still
\* returns the value, the in-memory entry holds it with expiry now + ttl, and
\* until that expiry every read of the fingerprint returns the new value,
\* whatever older value the durable tier still holds.
C21_DurableWriteFailureKeepsMemoryEntry ==
  /\ \A key \in DOMAIN written :
       (DurableWriteFailed(key) /\ now < written[key].exp) =>
         /\ key \in DOMAIN mem[MapName(written[key].kind)]
         /\ mem[MapName(written[key].kind)][key]
              = [data |-> written[key].data, exp |-> written[key].exp]
         /\ \A storageOk \in BOOLEAN :
              WouldRead(written[key].kind, key, storageOk) = written[key].data
  /\ (last.pc # "new" /\ last.wrote # Null) =>
       /\ last.pc = "done"
       /\ last.result = last.wrote.data
       /\ last.wrote.exp <= now + TtlOf(last.kind)

C21_Witness ==
  /\ last.pc = "done"
  /\ last.wrote # Null
  /\ KeyOf(last) \in DOMAIN written
  /\ written[KeyOf(last)].data = last.wrote.data
  /\ KeyOf(last) \in DOMAIN localStorage
  /\ JSONparse(localStorage[KeyOf(last)]).data # last.wrote.data
  /\ JSONparse(localStorage[KeyOf(last)]).exp > now
  /\ now < last.wrote.exp
  /\ clock > StartTime
  /\ WouldRead(last.kind, KeyOf(last), TRUE) = last.wrote.data

\* the dates of the points in the payload the provider of the session sends
PayloadDates ==
  LET body == PayloadResponse.body
  IN CASE session.provider = "MS" ->
            {DatePart(body.data[i].date) : i \in 1..Len(body.data)}
       [] session.provider = "FH" ->
            IF body.hasArrays THEN {IsoDateOf(body.t[i]) : i \in 1..Len(body.t)} ELSE {}
       [] session.provider = "AV" -> DOMAIN body.series

\* the series the adapters returned to the resolver of call req
AdapterSeries(req) ==
  {req.attempts[i].data.values :
     i \in {j \in 1..Len(req.attempts) : req.attempts[j].outcome # "raise"}}

\* C22 (sessions of PayloadSpec): for every series adapter and every output
\* count n, the series the adapter returns has at most n points, and they
\* are the most recent of the provider's data: each is a point of the
\* payload and every point left out is older than every point returned.
C22_AdapterReturnsMostRecent ==
  \A req \in Started :
    req.kind = "series" =>
      \A vals \in AdapterSeries(req) :
        /\ Len(vals) <= req.output
        /\ \A j \in 1..Len(vals) : vals[j].datetime \in PayloadDates
        /\ \A d \in PayloadDates :
             (\A j \in 1..Len(vals) : vals[j].datetime # d) =>
               \A j \in 1..Len(vals) : d < vals[j].datetime

\* the failing input of C22: Finnhub asked for 0 points never returns any
C22_FinnhubZeroOutput ==
  \A req \in Started :
    (req.kind = "series" /\ req.output = 0 /\ session.provider = "FH") =>
      \A vals \in AdapterSeries(req) : Len(vals) = 0

\* C22 for a positive output count at Finnhub and Alpha Vantage
C22_PositiveOutput ==
  \A req \in Started :
    (req.kind = "series" /\ req.output > 0 /\ session.provider # "MS") =>
      \A vals \in AdapterSeries(req) : Len(vals) <= req.output

\* the dates of a series are strictly ascending, hence without duplicates
StrictlyAscending(vals) ==
  \A j \in 1..(Len(vals) - 1) : vals[j].datetime < vals[j + 1].datetime

\* C23 (sessions of PayloadSpec): every series a successful resolution of
\* fetchSeries returns is in strictly ascending date order without duplicate
\* dates, in whatever order the provider sent the points.
C23_SeriesStrictlyAscending ==
  (last.pc = "done" /\ last.kind = "series" /\ last.src = "provider") =>
    StrictlyAscending(last.result.values)

\* C23 where it holds: the series built from an Alpha Vantage payload
C23_AlphaVantageAscending ==
  (last.pc = "done" /\ last.kind = "series" /\ last.src = "provider"
     /\ session.provider = "AV") =>
    StrictlyAscending(last.result.values)

\* Number(v) is a number: the field is present and parseable
Parseable(v) == Number(v).t = "num"

\* the payload of the session lacks the shape its adapter expects: an array
\* or object is missing or empty of data, or a price is not parseable
PayloadLacksShape ==
  LET body == PayloadResponse.body
      kind == session.kind
  IN CASE session.provider = "MS" ->
            \/ ~body.hasData
            \/ IF kind = "quote"
               THEN \E i \in 1..Len(body.data) : i <= 2 /\ ~Parseable(body.data[i].close)
               ELSE \E i \in 1..Len(body.data) : ~Parseable(body.data[i].close)
       [] session.provider = "FH" /\ kind = "quote" ->
            ~Parseable(body.c) \/ ~Parseable(body.pc)
       [] session.provider = "FH" /\ kind = "series" ->
            ~body.hasArrays \/ \E i \in 1..Len(body.c) : ~Parseable(body.c[i])
       [] session.provider = "AV" /\ kind = "quote" ->
            \/ ~body.hasQuote
            \/ ~Parseable(body.GlobalQuote.price)
            \/ ~Parseable(body.GlobalQuote.previousClose)
       [] session.provider = "AV" /\ kind = "series" ->
            \E d \in DOMAIN body.series : ~Parseable(body.series[d])

\* C24 (sessions of PayloadSpec): an adapter raises, and returns no quote or
\* series, whenever the response lacks the expected shape.
C24_MalformedPayloadRaises ==
  PayloadLacksShape =>
    \A req \in Started :
      \A i \in 1..Len(req.attempts) : req.attempts[i].outcome = "raise"

\* C24 where it holds: a Marketstack body without its data array
C24_MissingMarketstackDataRaises ==
  (session.provider = "MS" /\ ~PayloadResponse.body.hasData) =>
    \A req \in Started :
      \A i \in 1..Len(req.attempts) : req.attempts[i].outcome = "raise"

\* the dates of the payload of the session whose close is no valid number
UnparseableDates ==
  LET body == PayloadResponse.body
  IN CASE session.provider = "MS" ->
            {DatePart(body.data[i].date) :
               i \in {k \in 1..Len(body.data) : ~Parseable(body.data[k].close)}}
       [] session.provider = "FH" ->
            {IsoDateOf(body.t[i]) :
               i \in {k \in 1..Len(body.t) : k > Len(body.c) \/ ~Parseable(body.c[k])}}
       [] session.provider = "AV" ->
            {d \in DOMAIN body.series : ~Parseable(body.series[d])}

\* the call returned the canonical form of what a provider sent
FromProvider(req) == req.pc = "done" /\ req.src = "provider"

\* C25 (sessions of PayloadSpec): a successful resolution caches and returns
\* the canonical result: the prices of a quote are integers of the model
\* (finite numbers), 0 where the provider sent none; a series has no point
\* whose close is not a valid number.
C25_ResultCanonicalized ==
  FromProvider(last) =>
    /\ last.wrote.data = last.result
    /\ IF last.kind = "quote"
       THEN /\ last.result.price \in Int
            /\ last.result.previous_close \in Int
       ELSE \A j \in 1..Len(last.result.values) :
              last.result.values[j].datetime \notin UnparseableDates

\* C25 for quotes alone
C25_QuoteCanonicalized ==
  (FromProvider(last) /\ last.kind = "quote") =>
    /\ last.wrote.data = last.result
    /\ last.result.price \in Int
    /\ last.result.previous_close \in Int
    /\ (session.provider = "AV" /\ ~Parseable(PayloadResponse.body.GlobalQuote.price))
         => last.result.price = 0

\* C26 (sessions of PayloadSpec): every quote fetchQuote returns, from a
\* provider, from the cache or from the mock table, has a finite price and a
\* finite previous close, and its price is not negative.
C26_QuoteFiniteAndNonNegative ==
  (last.pc = "done" /\ last.kind = "quote") =>
    /\ last.result.price \in Int
    /\ last.result.previous_close \in Int
    /\ last.result.price >= 0

\* C26 without its last part: the two prices are finite
C26_QuoteFinite ==
  (last.pc = "done" /\ last.kind = "quote") =>
    /\ last.result.price \in Int
    /\ last.result.previous_close \in Int

\* the entry the in-memory tier holds for the fingerprint of call req
MemEntry(req) == mem[MapName(req.kind)][KeyOf(req)]

\* C27: concurrent calls for one fingerprint are not coalesced: each call in
\* flight that missed the cache has sent its own provider request; every call
\* returns a structurally valid result; and the cache entry of a fingerprint
\* is exactly the value and expiry written by the resolution that wrote
\* last, with nothing of an earlier write merged in.
C27_ConcurrentCallsLastWriterWins ==
  /\ \A i \in 1..Len(reqs) :
       reqs[i].pc = "attempt" =>
         /\ ResolverHttp(reqs[i]) # <<>>
         /\ \A j \in 1..Len(reqs) :
              (j # i /\ reqs[j].pc = "attempt") =>
                Len(ResolverHttp(reqs[i])) = reqs[i].step - NextProvider(reqs[i].SYM, 1) + 1
  /\ last.pc = "done" =>
       IF last.kind = "quote" THEN ValidQuote(last.result) ELSE ValidSeries(last.result)
  /\ \A key \in DOMAIN written :
       now < written[key].exp =>
         mem[MapName(written[key].kind)][key]
           = [data |-> written[key].data, exp |-> written[key].exp]
  /\ (last.pc = "done" /\ last.wrote # Null /\ now < last.wrote.exp) =>
       MemEntry(last) = last.wrote

C27_Witness ==
  /\ reqs = <<>>
  /\ calls = 2
  /\ last.pc = "done"
  /\ last.kind = "quote"
  /\ last.wrote # Null
  /\ last.freshAtCall = Null
  /\ KeyOf(last) \in DOMAIN fellBack
  /\ ~fellBack[KeyOf(last)].alone
  /\ fellBack[KeyOf(last)].data # last.wrote.data
  /\ fellBack[KeyOf(last)].exp > now
  /\ MemEntry(last) = last.wrote

\* apiState as a reader finds it between two steps of the core: no failure
\* yet, or the message and the time of one failure, with invalidKey set if
\* the message says so
WholeApiState(state) ==
  /\ (state.lastError = NoError) <=> (state.lastErrorAt = 0)
  /\ state.lastError = NoError => ~state.invalidKey
  /\ MentionsInvalidKey(state.lastError) => state.invalidKey
  /\ state.lastErrorAt <= now

\* C28: a reader that runs between the suspension points of the core never
\* finds apiState half updated: every step that changes apiState leaves the
\* message of the new failure together with the time of that failure and
\* with the invalidKey that failure implies; invalidKey is never reset, and
\* it is set only by a failure whose message names the key (the failure
\* recorded last, or the one of the validation probe in the same step).
C28_ApiStateNeverPartial ==
  [][/\ WholeApiState(apiState)'
     /\ apiState' # apiState =>
          /\ apiState'.lastError # NoError
          /\ apiState'.lastErrorAt = clock
          /\ apiState.invalidKey => apiState'.invalidKey
          /\ (apiState'.invalidKey /\ ~apiState.invalidKey) =>
               \/ MentionsInvalidKey(apiState'.lastError)
               \/ \E i \in 1..Len(reqs) : reqs[i].pc = "probe"]_vars

C28_Witness ==
  /\ Len(reqs) > 0
  /\ last.pc = "done"
  /\ last.src = "mock"
  /\ last.errs = 1
  /\ apiState.lastError = "HTTP 401: Invalid API key"
  /\ apiState.invalidKey
  /\ apiState.lastErrorAt = clock
  /\ clock > StartTime

\* SYM with its last three characters, ".TO", replaced by ".XTSE"
SuffixRemapped(SYM) == SubSeq(SYM, 1, Len(SYM) - Len(DOT_TO)) \o DOT_XTSE

\* C29 (sessions of PayloadSpec): for every symbol ending in ".TO", the
\* symbol asked at Marketstack is the symbol with its trailing ".TO" replaced
\* by ".XTSE" and every other character unchanged.
C29_TrailingSuffixRemapped ==
  \A req \in Started :
    endsWith(req.SYM, DOT_TO) =>
      \A i \in 1..Len(req.http) :
        req.http[i].prov = "MS" => req.http[i].sym = SuffixRemapped(req.SYM)

\* C29 for a symbol with a single ".TO"
C29_SingleSuffixRemapped ==
  \A req \in Started :
    (endsWith(req.SYM, DOT_TO) /\ req.SYM # A_TO_TO) =>
      \A i \in 1..Len(req.http) :
        req.http[i].prov = "MS" => req.http[i].sym = SuffixRemapped(req.SYM)

\* the cache key of a request shape
Fingerprint(shape) ==
  IF shape.kind = "quote" THEN quoteKey(Normalize(shape.symbol))
  ELSE seriesKey(Normalize(shape.symbol), shape.interval, shape.output)

\* the kind of the entry a stored text holds
StoredKind(raw) == IF HasMember(Member(raw, "data"), "values") THEN "series" ELSE "quote"

\* C30 (sessions of ShapeSpec): two requests have one cache key only if they
\* are of one kind, have one normalized symbol and, for series, one interval
\* and one output count; every call uses the key of its shape, and every
\* entry of the durable tier is of the kind of the request its key stands for.
C30_FingerprintsDistinct ==
  /\ \A a \in session.shapes, b \in session.shapes :
       Fingerprint(a) = Fingerprint(b) =>
         /\ a.kind = b.kind
         /\ Normalize(a.symbol) = Normalize(b.symbol)
         /\ a.kind = "series" => (a.interval = b.interval /\ a.output = b.output)
  /\ \A req \in Started :
       \E a \in session.shapes :
         /\ KeyOf(req) = Fingerprint(a)
         /\ req.kind = a.kind
         /\ req.SYM = Normalize(a.symbol)
  /\ \A key \in DOMAIN localStorage :
       \A a \in session.shapes :
         Fingerprint(a) = key => StoredKind(localStorage[key]) = a.kind
  /\ \A key \in DOMAIN written :
       \A a \in session.shapes :
         Fingerprint(a) = key => written[key].kind = a.kind

C30_Witness ==
  /\ reqs = <<>>
  /\ calls = 2
  /\ Cardinality(DOMAIN localStorage) = 2
  /\ \E a \in session.shapes, b \in session.shapes :
       /\ a.kind = "quote"
       /\ b.kind = "series"
       /\ Normalize(a.symbol) = Normalize(b.symbol)
       /\ Fingerprint(a) \in DOMAIN localStorage
       /\ Fingerprint(b) \in DOMAIN localStorage
       /\ StoredKind(localStorage[Fingerprint(a)]) = "quote"
       /\ StoredKind(localStorage[Fingerprint(b)]) = "series"

\* C31: over any sequence of calls, later successful ones included,
\* apiState.lastError never returns to null once it is a message, and
\* apiState.invalidKey never returns to false once it is true.
C31_ErrorStateNeverCleared ==
  [][/\ apiState.lastError # NoError => apiState'.lastError # NoError
     /\ apiState.lastError # NoError => apiState'.lastErrorAt >= apiState.lastErrorAt
     /\ apiState.invalidKey => apiState'.invalidKey]_vars

C31_Witness ==
  /\ last.pc = "done"
  /\ last.src = "provider"
  /\ last.errs = 0
  /\ calls = 2
  /\ apiState.invalidKey
  /\ apiState.lastError = "All providers failed"
  /\ apiState.lastErrorAt < clock

\* the requests validateKeyOnce has sent among those of call req
ProbeHttp(req) == SelectSeq(req.http, LAMBDA h : h.by = "validateKeyOnce")

\* the calls in flight that wait for the answer of the probe
Probing == {i \in 1..Len(reqs) : reqs[i].pc = "probe"}

\* C32: the validation probe sends at most one provider request in the
\* life of the process: a call sends it only while validated is false and
\* sets validated in the same step, validated is never reset, and a call
\* started while the probe is unanswered goes on without a probe of its own.
C32_ProbeSentAtMostOnce ==
  [][/\ validated => validated'
     /\ Cardinality(Probing') <= 1
     /\ \A i \in 1..Len(reqs') : Len(ProbeHttp(reqs'[i])) <= 1
     /\ calls' = calls + 1 =>
          /\ validated'
          /\ validated => Probing' = Probing
          /\ validated =>
               (Len(reqs') > Len(reqs) => ProbeHttp(reqs'[Len(reqs')]) = <<>>)
          /\ validated => (last' # last => ProbeHttp(last') = <<>>)]_vars

C32_Witness ==
  /\ Len(reqs) = 2
  /\ reqs[1].pc = "probe"
  /\ Len(ProbeHttp(reqs[1])) = 1
  /\ reqs[2].pc = "attempt"
  /\ ProbeHttp(reqs[2]) = <<>>
  /\ validated

\* the keys whose entry a step sets or changes in a tier of the cache
ChangedKeys(before, after) ==
  {k \in DOMAIN after : k \notin DOMAIN before \/ after[k] # before[k]}

\* the fingerprints of the calls in flight
KeysInFlight == {KeyOf(reqs[i]) : i \in 1..Len(reqs)}

\* C33 (sessions of ShapeSpec): a cache write for one fingerprint leaves the
\* value and expiry of every other fingerprint unchanged in both tiers: no
\* step removes an entry, and the entries a step sets or changes, in the two
\* Maps and in localStorage, are those of one fingerprint, the one of the
\* call that takes the step.
C33_WriteLeavesOtherKeys ==
  [][LET touched == ChangedKeys(mem.quotes, mem'.quotes)
                      \cup ChangedKeys(mem.series, mem'.series)
                      \cup ChangedKeys(localStorage, localStorage')
     IN /\ DOMAIN mem.quotes \subseteq DOMAIN mem'.quotes
        /\ DOMAIN mem.series \subseteq DOMAIN mem'.series
        /\ DOMAIN localStorage \subseteq DOMAIN localStorage'
        /\ Cardinality(touched) <= 1
        /\ touched \subseteq KeysInFlight \cup KeysInFlight' \cup {KeyOf(last')}]_vars

C33_Witness ==
  /\ reqs = <<>>
  /\ last.pc = "done"
  /\ last.wrote # Null
  /\ \E key \in DOMAIN written :
       /\ key # KeyOf(last)
       /\ written[key].kind = last.kind
       /\ written[key].exp < last.wrote.exp
       /\ now < written[key].exp
       /\ mem[MapName(last.kind)][key] = [data |-> written[key].data, exp |-> written[key].exp]
       /\ key \in DOMAIN localStorage
       /\ JSONparse(localStorage[key]) = [data |-> written[key].data, exp |-> written[key].exp]
  /\ MemEntry(last) = last.wrote

\* ------------------------------------------------------------------------
\* The App component (src/App.jsx): holdings, selection and the quote-sync
\* effect.  fetchQuote is the call of the layer above seen from its caller:
\* a promise that settles later with a quote or with an exception.
\* ------------------------------------------------------------------------
\* number of user events (add, remove, select, refresh, unmount) in one behaviour
MaxEvents == 2
\* Date.now() when the App mounts
AppStartTime == 2000

REFRESH_COOLDOWN == 1500

STORAGE_KEY ==
  <<"p", "o", "r", "t", "f", "o", "l", "i", "o", "-", "h", "o", "l", "d", "i", "n", "g", "s">>

\* a JavaScript string value
JsStr(chars) == [t |-> "str", s |-> chars]

\* the strings that stand for symbols in the App: what the user types, what
\* localStorage holds, and their normal forms
AppStrings ==
  {<<>>, <<" ">>, <<"a", "a", "p", "l">>, <<" ", "M", "S", "F", "T">>, AAPL, MSFT, AC_TO}

\* (symbol || "").toUpperCase().trim() of each of them
NormalForm == [str \in AppStrings |-> trim(toUpperCase(str))]

\* normalizeSymbol(symbol) of App.jsx and HoldingsTable.jsx
normalizeSymbol(symbol) ==
  NormalForm[IF symbol.t = "str" THEN symbol.s ELSE <<>>]

\* resolveQuoteValues(priceValue, previousValue), on numbers
resolveQuoteValues(priceValue, previousValue) ==
  [price |-> IF priceValue = 0 /\ previousValue > 0 THEN previousValue ELSE priceValue,
   previous |-> previousValue]

\* readQuoteEntry(sym): the parsed { data, exp } of localStorage["quote:SYM"]
readQuoteEntry(sym) ==
  IF quoteKey(sym) \in DOMAIN localStorage
  THEN JSONparse(localStorage[quoteKey(sym)])
  ELSE Null

\* readCachedQuote(sym)
readCachedQuote(sym) ==
  LET entry == readQuoteEntry(sym)
  IN IF entry = Null THEN Null
     ELSE IF entry.exp = 0 THEN Null
     ELSE IF now > entry.exp THEN Null
     ELSE entry.data

\* isQuoteFresh(entry)
isQuoteFresh(entry) == entry # Null /\ entry.exp # 0 /\ now < entry.exp

\* the symbols of a list of holdings, normalized, in order
SymbolsOf(items) == [i \in 1..Len(items) |-> normalizeSymbol(JsStr(items[i].symbol))]

Range(seq) == {seq[i] : i \in 1..Len(seq)}

\* Array.from(new Set(...)): the first occurrence of each element, in order
RECURSIVE Distinct(_)
Distinct(seq) ==
  IF seq = <<>> THEN <<>>
  ELSE LET init == Distinct(SubSeq(seq, 1, Len(seq) - 1))
           x == seq[Len(seq)]
       IN IF x \in Range(init) THEN init ELSE Append(init, x)

\* const uniqueSymbols = useMemo(...)
uniqueSymbols ==
  LET NonEmpty(sym) == Len(sym) > 0
  IN Distinct(SelectSeq(SymbolsOf(holdings), NonEmpty))

\* JSON.stringify(holdings) and JSON.parse of it
stringifyHoldings(items) ==
  [i \in 1..Len(items) |->
     <<<<"symbol", JsonString(items[i].symbol)>>,
       <<"shares", JsonNumber(items[i].shares)>>>>]

parseHoldings(text) ==
  [i \in 1..Len(text) |->
     [symbol |-> Member(text[i], "symbol").v, shares |-> Member(text[i], "shares").v]]

\* applyHoldings: the sanitized items
sanitize(items) ==
  LET mapped == [i \in 1..Len(items) |->
                   [symbol |-> normalizeSymbol(JsStr(items[i].symbol)),
                    shares |-> items[i].shares]]
      Kept(item) == Len(item.symbol) > 0 /\ item.shares > 0
  IN SelectSeq(mapped, Kept)

initialHoldings == <<>>

\* setPrices((prev) => ({ ...prev, [symbol]: value }))
SetPrice(map, symbol, value) ==
  [k \in (DOMAIN map) \cup {symbol} |-> IF k = symbol THEN value ELSE map[k]]

NoPrices == [k \in {} |-> 0]

\* the closure of one run of the quote-sync effect: its symbols, its force
\* flag, its cancelled flag, the position of its for loop, the fetchQuote
\* calls it has started that have not settled, and whether its code is over;
\* late is history: how many of its calls settled after it was cancelled
NewRun(symbols, force) ==
  [symbols |-> symbols, force |-> force, cancelled |-> FALSE, idx |-> 1,
   inflight |-> <<>>, done |-> FALSE, late |-> 0]

\* the React state that a run updates
AppState == [prices |-> prices, prevs |-> prevs, isLoadingQuotes |-> isLoadingQuotes]

\* a run that never looks at its cancelled flag
cancelledIgnored(run) == FALSE

\* if (cancelled) / if (!cancelled) in the async part of the effect
isCancelled(run) == run.cancelled

\* the end of the async function without its setIsLoadingQuotes(false)
afterLoopWithoutReset(run, st) == [run |-> [run EXCEPT !.done = TRUE], st |-> st]

\* if (!cancelled) { setIsLoadingQuotes(false); }
afterLoop(run, st) ==
  [run |-> [run EXCEPT !.done = TRUE],
   st |-> IF isCancelled(run) THEN st ELSE [st EXCEPT !.isLoadingQuotes = FALSE]]

RECURSIVE loopFrom(_, _, _)

\* fetchQuote(symbol) started and not awaited: the loop goes on at once
fetchWithoutAwait(run, i, st) ==
  loopFrom([run EXCEPT !.idx = i, !.inflight = Append(@, run.symbols[i])], i + 1, st)

\* await fetchQuote(symbol): the run is suspended at iteration i
awaitFetch(run, i, st) ==
  [run |-> [run EXCEPT !.idx = i, !.inflight = Append(@, run.symbols[i])], st |-> st]

\* for (const symbol of symbols) from iteration i up to the next await or the
\* end of the function.  The symbols of a run are distinct, so the entries
\* read here are not the one a fetchQuote of this run has just written.
loopFrom(run, i, st) ==
  IF i > Len(run.symbols) \/ isCancelled(run) THEN afterLoop(run, st)
  ELSE LET symbol == run.symbols[i]
           entry == readQuoteEntry(symbol)
       IN IF ~run.force /\ isQuoteFresh(entry)
          THEN LET resolved == resolveQuoteValues(entry.data.price,
                                                  entry.data.previous_close)
               IN loopFrom(run, i + 1,
                           IF isCancelled(run) THEN st
                           ELSE [st EXCEPT !.prices = SetPrice(@, symbol, resolved.price),
                                           !.prevs = SetPrice(@, symbol, resolved.previous)])
          ELSE awaitFetch(run, i, st)

\* the cleanup of the runs so far: cancelled = true
Cleanup(rs) == [k \in DOMAIN rs |-> [rs[k] EXCEPT !.cancelled = TRUE]]

\* the cached prices the effect merges before it fetches
MergeCached(map, symbols, field) ==
  [k \in (DOMAIN map) \cup {sym \in Range(symbols) : readCachedQuote(sym) # Null} |->
     IF k \in Range(symbols) /\ readCachedQuote(k) # Null
     THEN LET cached == readCachedQuote(k)
          IN resolveQuoteValues(cached.price, cached.previous_close)[field]
     ELSE map[k]]

\* the body of the quote-sync effect run with the holdings items, up to its
\* first await: the new run, the React state and refreshMetaRef after it
syncBody(items, symbols, st) ==
  IF Len(items) = 0 \/ Len(symbols) = 0
  THEN [run |-> [NewRun(symbols, FALSE) EXCEPT !.done = TRUE],
        st |-> [prices |-> NoPrices, prevs |-> NoPrices, isLoadingQuotes |-> FALSE],
        meta |-> refreshMetaRef]
  ELSE LET merged == [st EXCEPT !.prices = MergeCached(@, symbols, "price"),
                                !.prevs = MergeCached(@, symbols, "previous")]
           force == refreshMetaRef.force
           shouldFetch == force \/ \E i \in 1..Len(symbols) :
                                      ~isQuoteFresh(readQuoteEntry(symbols[i]))
       IN IF ~shouldFetch
          THEN [run |-> [NewRun(symbols, force) EXCEPT !.done = TRUE],
                st |-> [merged EXCEPT !.isLoadingQuotes = FALSE],
                meta |-> [force |-> FALSE]]
          ELSE LET b == loopFrom(NewRun(symbols, force), 1,
                                 [merged EXCEPT !.isLoadingQuotes = TRUE])
               IN [run |-> b.run, st |-> b.st, meta |-> [force |-> FALSE]]

\* mount: the first run of the effects, in the order of the source, with the
\* state of the first render (holdings = [], selected = null).  The load
\* effect queues setHoldings(sanitized) and setSelected(fallbackSymbol), the
\* quote-sync effect stores "[]" and clears the prices, the selection effect
\* queues setSelected(null) after the load effect's setSelected.
Mount ==
  /\ phase = "new"
  /\ \E symbols \in {uniqueSymbols}, st \in {AppState} :
     \E b \in {syncBody(holdings, symbols, st)} :
     LET stored == IF STORAGE_KEY \in DOMAIN localStorage
                   THEN parseHoldings(localStorage[STORAGE_KEY]) ELSE <<>>
         items == IF Len(stored) > 0 THEN stored ELSE initialHoldings
     IN /\ holdings' = sanitize(items)
        /\ selected' = JsNull
        /\ localStorage' = MapSet(localStorage, STORAGE_KEY, stringifyHoldings(holdings))
        /\ runs' = Append(Cleanup(runs), b.run)
        /\ prices' = b.st.prices
        /\ prevs' = b.st.prevs
        /\ isLoadingQuotes' = b.st.isLoadingQuotes
        /\ refreshMetaRef' = b.meta
  /\ phase' = "mounted"
  /\ pendingSync' = TRUE
  /\ pendingSelection' = TRUE
  /\ UNCHANGED <<refreshTick, refreshCooldownRef, events, lastEvent, sortColumn,
                 sortDirection, streak>>
  /\ UNCHANGED <<USE_MS, USE_FH, USE_AV, mem, apiState, validated, clock, reqs, last,
                 calls, ticks, session, written, fellBack>>

\* the quote-sync effect after a change of holdings or refreshTick: the
\* cleanup of the previous run, then the body
QuoteSyncEffect ==
  /\ phase = "mounted"
  /\ pendingSync
  /\ \E symbols \in {uniqueSymbols}, st \in {AppState} :
     \E b \in {syncBody(holdings, symbols, st)} :
        /\ localStorage' = MapSet(localStorage, STORAGE_KEY, stringifyHoldings(holdings))
        /\ runs' = Append(Cleanup(runs), b.run)
        /\ prices' = b.st.prices
        /\ prevs' = b.st.prevs
        /\ isLoadingQuotes' = b.st.isLoadingQuotes
        /\ refreshMetaRef' = b.meta
  /\ pendingSync' = FALSE
  /\ UNCHANGED <<phase, holdings, selected, refreshTick, refreshCooldownRef,
                 pendingSelection, events, lastEvent, sortColumn, sortDirection, streak>>
  /\ UNCHANGED <<USE_MS, USE_FH, USE_AV, mem, apiState, validated, clock, reqs, last,
                 calls, ticks, session, written, fellBack>>

\* what a fetchQuote call settles with: a quote of a provider, which the
\* resolver has cached, the quote of the mock table, or an exception
FetchOutcomes(symbol) ==
  {[kind |-> "provider", ok |-> TRUE, cached |-> TRUE,
    data |-> [price |-> 0, previous_close |-> 9, change_percent |-> Null]],
   [kind |-> "mock", ok |-> TRUE, cached |-> FALSE,
    data |-> [price |-> loadMockQuote(symbol).price,
              previous_close |-> loadMockQuote(symbol).previous_close,
              change_percent |-> Null]],
   [kind |-> "throw", ok |-> FALSE, cached |-> FALSE, data |-> Null]}

\* the code of a run after its await: the fetchQuote call for symbol has
\* settled with outcome; up to the next await or the end of the function
resume(run, symbol, outcome, st) ==
  IF outcome.ok
  THEN IF isCancelled(run) THEN afterLoop(run, st)
       ELSE LET resolved == resolveQuoteValues(outcome.data.price,
                                               outcome.data.previous_close)
            IN loopFrom(run, run.idx + 1,
                        [st EXCEPT !.prices = SetPrice(@, symbol, resolved.price),
                                   !.prevs = SetPrice(@, symbol, resolved.previous)])
  ELSE LET fallbackPrice == IF symbol \in DOMAIN st.prices THEN st.prices[symbol] ELSE 0
           fallbackPrev == IF symbol \in DOMAIN st.prevs THEN st.prevs[symbol] ELSE 0
       IN loopFrom(run, run.idx + 1,
                   IF isCancelled(run) THEN st
                   ELSE [st EXCEPT !.prices = SetPrice(@, symbol, fallbackPrice),
                                   !.prevs = SetPrice(@, symbol, fallbackPrev)])

\* the fetchQuote call that run k awaits settles (a quote of a provider has
\* been cached by then) and the run goes on
FetchSettle(k, outcome) ==
  /\ k \in DOMAIN runs
  /\ runs[k].inflight # <<>>
  /\ \E symbol \in {Head(runs[k].inflight)}, st \in {AppState} :
     \E r1 \in {[runs[k] EXCEPT !.inflight = Tail(@),
                                !.late = IF runs[k].cancelled THEN @ + 1 ELSE @]} :
     \E b \in {resume(r1, symbol, outcome, st)} :
     \E w \in {IF outcome.ok /\ outcome.cached
               THEN writeCache(mem.quotes, localStorage, quoteKey(symbol), outcome.data,
                               QUOTE_TTL_MS, now, TRUE)
               ELSE [map |-> mem.quotes, store |-> localStorage]} :
        /\ runs' = [runs EXCEPT ![k] = b.run]
        /\ prices' = b.st.prices
        /\ prevs' = b.st.prevs
        /\ isLoadingQuotes' = b.st.isLoadingQuotes
        /\ mem' = [mem EXCEPT !.quotes = w.map]
        /\ localStorage' = w.store
  /\ UNCHANGED <<phase, holdings, selected, refreshTick, refreshMetaRef,
                 refreshCooldownRef, pendingSync, pendingSelection, events, lastEvent,
                 sortColumn, sortDirection, streak>>
  /\ UNCHANGED <<USE_MS, USE_FH, USE_AV, apiState, validated, clock, reqs, last,
                 calls, ticks, session, written, fellBack>>

\* a selection effect that leaves the selection as it is
selectionKept(items, sel) == sel

\* the value of selected after the selection effect ran with the holdings
\* items and the selection sel
selectionAfter(items, sel) ==
  IF Len(items) = 0 THEN JsNull
  ELSE LET current == normalizeSymbol(sel)
           hasSelected == current \in Range(SymbolsOf(items))
       IN IF hasSelected THEN sel
          ELSE JsStr(normalizeSymbol(JsStr(items[1].symbol)))

\* the selection effect
SelectionEffect ==
  /\ phase = "mounted"
  /\ pendingSelection
  /\ selected' = selectionAfter(holdings, selected)
  /\ pendingSelection' = (selected' # selected)
  /\ UNCHANGED <<phase, holdings, prices, prevs, refreshTick, isLoadingQuotes,
                 refreshMetaRef, refreshCooldownRef, runs, pendingSync, events,
                 lastEvent, sortColumn, sortDirection, streak>>
  /\ UNCHANGED coreVars

\* handleAddHolding's update of holdings that appends without looking for
\* the symbol
addHoldingAppendOnly(current, sym, shareCount) ==
  Append(current, [symbol |-> sym, shares |-> shareCount])

\* the updater of setHoldings in handleAddHolding
addHolding(current, sym, shareCount) ==
  IF sym \in Range(SymbolsOf(current))
  THEN [i \in 1..Len(current) |->
          IF normalizeSymbol(JsStr(current[i].symbol)) = sym
          THEN [current[i] EXCEPT !.shares = @ + shareCount]
          ELSE current[i]]
  ELSE Append(current, [symbol |-> sym, shares |-> shareCount])

\* the updater of setHoldings in handleRemoveHolding
removeHolding(current, sym) ==
  LET Other(item) == normalizeSymbol(JsStr(item.symbol)) # sym
  IN SelectSeq(current, Other)

\* handleAddHolding({ symbol, shares })
AddHolding(symbol, shares) ==
  /\ phase = "mounted"
  /\ events < MaxEvents
  /\ events' = events + 1
  /\ lastEvent' = [op |-> "add", symbol |-> symbol, shares |-> shares]
  /\ LET sym == normalizeSymbol(symbol)
         shareCount == Number(shares)
     IN IF Len(sym) = 0 \/ shareCount.t # "num" \/ shareCount.n <= 0
        THEN UNCHANGED <<holdings, selected, pendingSync, pendingSelection>>
        ELSE /\ holdings' = addHolding(holdings, sym, shareCount.n)
             /\ selected' = IF selected = JsNull THEN JsStr(sym) ELSE selected
             /\ pendingSync' = TRUE
             /\ pendingSelection' = TRUE
  /\ UNCHANGED <<phase, prices, prevs, refreshTick, isLoadingQuotes, refreshMetaRef,
                 refreshCooldownRef, runs, sortColumn, sortDirection, streak>>
  /\ UNCHANGED coreVars

\* handleRemoveHolding(symbol), from the remove button of a row
RemoveHolding(symbol) ==
  /\ phase = "mounted"
  /\ events < MaxEvents
  /\ events' = events + 1
  /\ lastEvent' = [op |-> "remove", symbol |-> symbol,
                   wasSelected |-> (selected = JsStr(normalizeSymbol(symbol)))]
  /\ holdings' = removeHolding(holdings, normalizeSymbol(symbol))
  /\ pendingSync' = TRUE
  /\ pendingSelection' = TRUE
  /\ UNCHANGED <<phase, prices, prevs, selected, refreshTick, isLoadingQuotes,
                 refreshMetaRef, refreshCooldownRef, runs, sortColumn, sortDirection,
                 streak>>
  /\ UNCHANGED coreVars

\* onSelect={(symbol) => setSelected(normalizeSymbol(symbol))}, from a row
Select(symbol) ==
  /\ phase = "mounted"
  /\ events < MaxEvents
  /\ events' = events + 1
  /\ lastEvent' = [op |-> "select", symbol |-> symbol]
  /\ selected' = JsStr(normalizeSymbol(symbol))
  /\ pendingSelection' = (pendingSelection \/ selected' # selected)
  /\ UNCHANGED <<phase, holdings, prices, prevs, refreshTick, isLoadingQuotes,
                 refreshMetaRef, refreshCooldownRef, runs, pendingSync, sortColumn,
                 sortDirection, streak>>
  /\ UNCHANGED coreVars

\* handleRefresh, from the Refresh button (disabled while isLoadingQuotes):
\* requestRefresh(false)
Refresh ==
  /\ phase = "mounted"
  /\ events < MaxEvents
  /\ ~isLoadingQuotes
  /\ events' = events + 1
  /\ lastEvent' = [op |-> "refresh"]
  /\ IF now - refreshCooldownRef < REFRESH_COOLDOWN
     THEN UNCHANGED <<refreshCooldownRef, refreshMetaRef, refreshTick, pendingSync>>
     ELSE /\ refreshCooldownRef' = now
          /\ refreshMetaRef' = [force |-> FALSE]
          /\ refreshTick' = refreshTick + 1
          /\ pendingSync' = TRUE
  /\ UNCHANGED <<phase, holdings, prices, prevs, selected, isLoadingQuotes, runs,
                 pendingSelection, sortColumn, sortDirection, streak>>
  /\ UNCHANGED coreVars

\* the App unmounts: the cleanup of the quote-sync effect
Unmount ==
  /\ phase = "mounted"
  /\ events < MaxEvents
  /\ events' = events + 1
  /\ lastEvent' = [op |-> "unmount"]
  /\ phase' = "unmounted"
  /\ runs' = Cleanup(runs)
  /\ UNCHANGED <<holdings, prices, prevs, selected, refreshTick, isLoadingQuotes,
                 refreshMetaRef, refreshCooldownRef, pendingSync, pendingSelection,
                 sortColumn, sortDirection, streak>>
  /\ UNCHANGED coreVars

\* what the user types into the form of HoldingsForm
FormSymbols == {JsStr(<<"a", "a", "p", "l">>), JsStr(<<" ", "M", "S", "F", "T">>),
                JsStr(<<" ">>)}
FormShares == {Num(1), Num(0), Str}

\* the holdings that a previous visit stored under STORAGE_KEY
StoredHoldings ==
  {<<>>,
   <<[symbol |-> AAPL, shares |-> 2]>>,
   <<[symbol |-> <<"a", "a", "p", "l">>, shares |-> 1], [symbol |-> MSFT, shares |-> 0]>>,
   <<[symbol |-> MSFT, shares |-> 1], [symbol |-> AAPL, shares |-> 2]>>}

\* a quote of AAPL cached by a previous visit, fresh for a short while
CachedAAPL ==
  JSONstringify([data |-> [price |-> 10, previous_close |-> 9, change_percent |-> Null],
                 exp |-> AppStartTime + ShortStep])

\* the localStorage a visit starts with: nothing, or the holdings of a
\* previous visit, with or without the cached quote
AppStorages(stored) ==
  {EmptyMap}
    \cup {MapSet(EmptyMap, STORAGE_KEY, stringifyHoldings(h)) : h \in stored}
    \cup {MapSet(MapSet(EmptyMap, STORAGE_KEY, stringifyHoldings(h)), quoteKey(AAPL),
                 CachedAAPL) : h \in stored}

\* the state at page load, for a visit whose user types the given symbols
\* and share counts, whose localStorage holds one of the stored holdings and
\* whose fetchQuote calls settle in the given ways
AppInitWith(symbols, shares, stored, outcomes) ==
  /\ AppConstructed
  /\ USE_MS = FALSE
  /\ USE_FH = FALSE
  /\ USE_AV = FALSE
  /\ mem = [quotes |-> EmptyMap, series |-> EmptyMap]
  /\ localStorage \in AppStorages(stored)
  /\ apiState = [lastError |-> NoError, lastErrorAt |-> 0, invalidKey |-> FALSE]
  /\ validated = FALSE
  /\ clock = AppStartTime
  /\ reqs = <<>>
  /\ last = NewReq
  /\ calls = 0
  /\ ticks = 0
  /\ session = [symbols |-> symbols, shares |-> shares, outcomes |-> outcomes]
  /\ written = EmptyMap
  /\ fellBack = EmptyMap

\* the steps of the App and of the promises it awaits
AppStep ==
  \/ Mount
  \/ QuoteSyncEffect
  \/ SelectionEffect
  \/ \E k \in {j \in DOMAIN runs : runs[j].inflight # <<>>} :
        \E outcome \in FetchOutcomes(Head(runs[k].inflight)) :
           outcome.kind \in session.outcomes /\ FetchSettle(k, outcome)

\* the events of the user
UserEvent ==
  \/ \E symbol \in session.symbols, shares \in session.shares : AddHolding(symbol, shares)
  \/ \E i \in 1..Len(holdings) : RemoveHolding(JsStr(SymbolsOf(holdings)[i]))
  \/ \E i \in 1..Len(holdings) : Select(JsStr(SymbolsOf(holdings)[i]))
  \/ Refresh
  \/ Unmount

\* ------------------------------------------------------------------------
\* HoldingsTable (src/components/HoldingsTable.jsx), rendered by the App with
\* holdings and prices
\* ------------------------------------------------------------------------
Columns == {"symbol", "shares", "price", "change", "value"}

\* successive clicks on one header are counted up to this number, then from
\* one again
ClickCycle == 6

\* the order of the characters of the symbols under localeCompare
Collation == <<".", "A", "C", "F", "L", "M", "O", "P", "S", "T">>

Rank(c) == CHOOSE i \in 1..Len(Collation) : Collation[i] = c

\* symA.localeCompare(symB): negative, zero or positive
RECURSIVE localeCompare(_, _)
localeCompare(a, b) ==
  IF a = <<>> /\ b = <<>> THEN 0
  ELSE IF a = <<>> THEN -1
  ELSE IF b = <<>> THEN 1
  ELSE IF Head(a) # Head(b) THEN Rank(Head(a)) - Rank(Head(b))
  ELSE localeCompare(Tail(a), Tail(b))

\* Number(prices?.[sym] ?? 0): the App passes a number for each symbol
PriceOf(map, sym) == IF sym \in DOMAIN map THEN map[sym] ELSE 0

PREV_CLOSE == <<"-", "p", "r", "e", "v", "C", "l", "o", "s", "e">>

\* getChange(sym) for a numeric entry: the previous close is looked up under
\* `${sym}-prevClose`; the percentage is rounded towards zero here
getChange(map, sym) ==
  LET priceNumber == PriceOf(map, sym)
      prevClose == PriceOf(map, sym \o PREV_CLOSE)
  IN IF prevClose # 0 THEN ((priceNumber - prevClose) * 100) \div prevClose ELSE 0

\* the comparator of getSortedHoldings
compareHoldings(a, b, column, direction, map) ==
  LET symA == normalizeSymbol(JsStr(a.symbol))
      symB == normalizeSymbol(JsStr(b.symbol))
      compareValue ==
        CASE column = "symbol" -> localeCompare(symA, symB)
          [] column = "shares" -> a.shares - b.shares
          [] column = "price" -> PriceOf(map, symA) - PriceOf(map, symB)
          [] column = "change" -> getChange(map, symA) - getChange(map, symB)
          [] column = "value" -> PriceOf(map, symA) * a.shares - PriceOf(map, symB) * b.shares
          [] OTHER -> 0
  IN IF direction = "asc" THEN compareValue ELSE 0 - compareValue

\* [...items].sort(comparator): Array.prototype.sort is stable
RECURSIVE sortHoldings(_, _, _, _)
sortHoldings(items, column, direction, map) ==
  IF items = <<>> THEN <<>>
  ELSE LET init == sortHoldings(SubSeq(items, 1, Len(items) - 1), column, direction, map)
           x == items[Len(items)]
           Before(i) == compareHoldings(init[i], x, column, direction, map) <= 0
           n == Cardinality({i \in 1..Len(init) : \A j \in 1..i : Before(j)})
       IN SubSeq(init, 1, n) \o <<x>> \o SubSeq(init, n + 1, Len(init))

\* getSortedHoldings(): the rows in the order the table shows them
getSortedHoldings ==
  IF sortColumn = NoColumn THEN holdings
  ELSE sortHoldings(holdings, sortColumn, sortDirection, prices)

\* handleHeaderClick(column), from a column header; the table has headers
\* only when there are holdings
HeaderClick(column) ==
  /\ phase = "mounted"
  /\ Len(holdings) > 0
  /\ IF sortColumn = column
     THEN IF sortDirection = "asc"
          THEN sortDirection' = "desc" /\ UNCHANGED sortColumn
          ELSE sortColumn' = NoColumn /\ sortDirection' = "asc"
     ELSE /\ sortColumn' = column
          /\ sortDirection' = IF column = "symbol" THEN "asc" ELSE "desc"
  /\ streak' = [column |-> column,
                clicks |-> IF streak.column = column
                           THEN (streak.clicks % ClickCycle) + 1 ELSE 1]
  /\ UNCHANGED <<phase, holdings, prices, prevs, selected, refreshTick, isLoadingQuotes,
                 refreshMetaRef, refreshCooldownRef, runs, pendingSync, pendingSelection,
                 events, lastEvent>>
  /\ UNCHANGED coreVars

\* a visit in which the user does nothing but sort the table of the stored
\* holdings, while their quotes arrive
TableInit == AppInitWith({}, {}, StoredHoldings, {"provider", "mock"})

TableNext ==
  \/ AppStep
  \/ \E column \in Columns : HeaderClick(column)

TableSpec == TableInit /\ [][TableNext]_vars

\* a visit in which quotes are fetched while the user changes the holdings
SyncInit ==
  AppInitWith({JsStr(<<"a", "a", "p", "l">>), JsStr(<<" ", "M", "S", "F", "T">>)},
              {Num(1)}, StoredHoldings, {"provider", "mock", "throw"})

SyncNext ==
  \/ AppStep
  \/ UserEvent

SyncSpec == SyncInit /\ [][SyncNext]_vars

\* a visit in which the user edits the holdings with every kind of input
HoldingsInit == AppInitWith(FormSymbols, FormShares, StoredHoldings, {"mock", "throw"})

HoldingsSpec == HoldingsInit /\ [][SyncNext]_vars

\* SyncSpec with the scheduling of the browser: React runs the effects that
\* are due and every fetchQuote call settles.  No step of the App can be
\* taken for ever (each consumes a pending effect or a pending call), so
\* weak fairness of the steps as a whole gives each of them its turn.
SyncFairInit ==
  AppInitWith({JsStr(<<"a", "a", "p", "l">>)}, {Num(1)},
              {<<[symbol |-> MSFT, shares |-> 1], [symbol |-> AAPL, shares |-> 2]>>},
              {"provider", "mock", "throw"})

SyncFairSpec == SyncFairInit /\ [][SyncNext]_vars /\ WF_vars(AppStep)

\* ------------------------------------------------------------------------
\* Properties of the App
\* ------------------------------------------------------------------------
\* C34: a run of the quote-sync effect that has been cancelled starts no
\* further fetchQuote call, and the step in which it goes on (its call in
\* flight has settled, with a quote or with an exception) changes neither
\* prices nor prevs nor isLoadingQuotes.
C34_CancelledRunIsSilent ==
  [][\A k \in DOMAIN runs :
       runs[k].cancelled =>
         /\ \/ runs'[k].inflight = runs[k].inflight
            \/ /\ runs[k].inflight # <<>>
               /\ runs'[k].inflight = Tail(runs[k].inflight)
         /\ runs'[k] # runs[k] =>
              /\ prices' = prices
              /\ prevs' = prevs
              /\ isLoadingQuotes' = isLoadingQuotes]_vars

\* a run of two symbols was cancelled while it awaited the quote of the
\* first; the call settled afterwards and the run is over
C34_Witness ==
  \E k \in DOMAIN runs :
     /\ runs[k].cancelled
     /\ runs[k].late > 0
     /\ runs[k].done
     /\ Len(runs[k].symbols) = 2
     /\ runs[k].idx = 1

\* C35: a run of the quote-sync effect has at most one fetchQuote call in
\* flight, and it starts the call for a later symbol only in the step in
\* which the call for the symbol before has settled.
C35_OneFetchAtATime ==
  [][\A k \in DOMAIN runs' :
       /\ Len(runs'[k].inflight) <= 1
       /\ (k \in DOMAIN runs /\ runs'[k].inflight # <<>>
             /\ runs'[k].inflight # runs[k].inflight) =>
            /\ runs[k].inflight = <<runs[k].symbols[runs[k].idx]>>
            /\ runs'[k].idx > runs[k].idx
            /\ runs'[k].inflight = <<runs[k].symbols[runs'[k].idx]>>]_vars

\* a run of two symbols awaits the quote of the second, the first settled
C35_Witness ==
  \E k \in DOMAIN runs :
     /\ Len(runs[k].symbols) = 2
     /\ runs[k].idx = 2
     /\ runs[k].inflight = <<runs[k].symbols[2]>>

\* C36: when isLoadingQuotes is true it becomes false again while the App
\* is mounted, given that the effects run and every fetchQuote call settles;
\* also when the run that set it is cancelled and a newer run takes over.
C36_LoadingEventuallyEnds ==
  isLoadingQuotes ~> (~isLoadingQuotes \/ phase = "unmounted")

\* a run that had set isLoadingQuotes was cancelled while its call was in
\* flight, a newer run fetched in its turn, and isLoadingQuotes is false
C36_Witness ==
  /\ phase = "mounted"
  /\ ~isLoadingQuotes
  /\ ~pendingSync
  /\ \E k \in DOMAIN runs :
        /\ k < Len(runs)
        /\ runs[k].late > 0
        /\ runs[Len(runs)].done
        /\ ~runs[Len(runs)].cancelled
        /\ runs[Len(runs)].idx >= 1
        /\ \E sym \in Range(runs[Len(runs)].symbols) : sym \notin Range(runs[k].symbols)

\* no two holdings with the same normalized symbol, every share count > 0
UniqueSymbols(items) ==
  \A i, j \in 1..Len(items) : i # j => SymbolsOf(items)[i] # SymbolsOf(items)[j]

PositiveShares(items) == \A i \in 1..Len(items) : items[i].shares > 0

\* the step is a call of handleAddHolding
AddStep == events' = events + 1 /\ lastEvent'.op = "add"

\* C37: holdings never holds a normalized symbol twice nor a share count
\* that is not positive; handleAddHolding with an empty symbol or a share
\* count that is no positive number leaves holdings unchanged, and with a
\* symbol already held it adds the share count to that entry and appends
\* nothing.
C37_HoldingsStayUnique ==
  [][/\ UniqueSymbols(holdings')
     /\ PositiveShares(holdings')
     /\ AddStep =>
          LET sym == normalizeSymbol(lastEvent'.symbol)
              shareCount == Number(lastEvent'.shares)
          IN IF Len(sym) = 0 \/ shareCount.t # "num" \/ shareCount.n <= 0
             THEN holdings' = holdings
             ELSE sym \in Range(SymbolsOf(holdings)) =>
                    /\ Len(holdings') = Len(holdings)
                    /\ \A i \in 1..Len(holdings) :
                          /\ holdings'[i].symbol = holdings[i].symbol
                          /\ holdings'[i].shares =
                               IF SymbolsOf(holdings)[i] = sym
                               THEN holdings[i].shares + shareCount.n
                               ELSE holdings[i].shares]_vars

\* "aapl" with 1 share was added to the stored holding AAPL of 2 shares
C37_Witness ==
  /\ lastEvent.op = "add"
  /\ lastEvent.symbol = JsStr(<<"a", "a", "p", "l">>)
  /\ lastEvent.shares = Num(1)
  /\ Len(holdings) = 1
  /\ holdings[1] = [symbol |-> AAPL, shares |-> 3]

\* C38: once the selection effect has run after the last change of holdings
\* or of the selection, selected is null if holdings is empty and the
\* normalized symbol of a holding otherwise; after the removal of the
\* selected holding it is the symbol of the first holding that remains.
C38_SelectionFollowsHoldings ==
  (phase = "mounted" /\ ~pendingSelection) =>
     /\ Len(holdings) = 0 => selected = JsNull
     /\ Len(holdings) > 0 =>
          /\ selected.t = "str"
          /\ selected.s \in Range(SymbolsOf(holdings))
          /\ (lastEvent.op = "remove" /\ lastEvent.wasSelected) =>
               selected.s = SymbolsOf(holdings)[1]

\* the selected holding was removed while another remained; the selection
\* effect has run and selected the first holding that remains
C38_Witness ==
  /\ phase = "mounted"
  /\ ~pendingSelection
  /\ lastEvent.op = "remove"
  /\ lastEvent.wasSelected
  /\ Len(holdings) > 0
  /\ selected = JsStr(SymbolsOf(holdings)[1])

\* the value a row is sorted by in a column
SortKey(item, column) ==
  LET sym == normalizeSymbol(JsStr(item.symbol))
  IN CASE column = "shares" -> item.shares
       [] column = "price" -> PriceOf(prices, sym)
       [] column = "change" -> getChange(prices, sym)
       [] column = "value" -> PriceOf(prices, sym) * item.shares
       [] OTHER -> 0

\* rows a, b in this order agree with the ascending order of the column
InOrder(a, b, column) ==
  IF column = "symbol"
  THEN localeCompare(normalizeSymbol(JsStr(a.symbol)), normalizeSymbol(JsStr(b.symbol))) <= 0
  ELSE SortKey(a, column) <= SortKey(b, column)

Ascending(rows, column) ==
  \A i \in 1..Len(rows) - 1 : InOrder(rows[i], rows[i + 1], column)

Descending(rows, column) ==
  \A i \in 1..Len(rows) - 1 : InOrder(rows[i + 1], rows[i], column)

\* C39: the first of successive clicks on a column header sorts the rows by
\* that column ascending, the second descending, the third restores the
\* order of holdings, for each of the five columns; a click on another
\* column starts the cycle of that column.
C39_HeaderClicksCycle ==
  /\ streak.clicks % 3 = 1 =>
       /\ sortColumn = streak.column
       /\ sortDirection = "asc"
       /\ Ascending(getSortedHoldings, streak.column)
  /\ streak.clicks % 3 = 2 =>
       /\ sortColumn = streak.column
       /\ sortDirection = "desc"
       /\ Descending(getSortedHoldings, streak.column)
  /\ (streak.clicks > 0 /\ streak.clicks % 3 = 0) =>
       /\ sortColumn = NoColumn
       /\ getSortedHoldings = holdings

\* the same for the Symbol column alone, whose first direction is ascending
C39_SymbolHeaderCycles ==
  streak.column = "symbol" => C39_HeaderClicksCycle

\* a click on another column makes that column the sort column; the other
\* four columns go from descending to unsorted and back; and what the table
\* shows is in the order of the sort state: ascending or descending by the
\* sort column, or the order of holdings when there is none
C39_SortStateShown ==
  /\ streak.clicks = 1 => sortColumn = streak.column
  /\ (streak.clicks > 0 /\ streak.column # "symbol") =>
       IF streak.clicks % 2 = 1
       THEN sortColumn = streak.column /\ sortDirection = "desc"
       ELSE sortColumn = NoColumn
  /\ sortColumn = NoColumn => getSortedHoldings = holdings
  /\ (sortColumn # NoColumn /\ sortDirection = "asc") =>
       Ascending(getSortedHoldings, sortColumn)
  /\ (sortColumn # NoColumn /\ sortDirection = "desc") =>
       Descending(getSortedHoldings, sortColumn)

====
